---------------------------- MODULE Spec2Model ----------------------------
(***************************************************************************)
(* A model of scripts/build_items.py: the price-catalog generator.  The    *)
(* catalog read by main() is the input; the rows of out_items are built    *)
(* from it, repaired by the stabilization passes, marked, merged with the  *)
(* synthetic rows, sorted and written.  A run fails when a fetch raises or *)
(* a record has no name.  Spec is one run of main(), SpecRerun runs main() *)
(* again over the same inputs and the artifact of the run before, and      *)
(* SpecCalls calls trade_count_and_label and build_enchanted_book_items on *)
(* their own.                                                              *)
(*                                                                         *)
(* Representation.                                                         *)
(*  - A key (an item name) is a sequence of one-character strings, so      *)
(*    that the prefix, suffix and substring tests of the code are          *)
(*    computed.                                                            *)
(*  - A text of the output (a label, a note, a category, a name_ru) is     *)
(*    the sequence of its Unicode code points, which is what the sort of   *)
(*    the rows compares.                                                   *)
(*  - A Python float is an exact rational <<numerator, denominator>> with  *)
(*    a positive denominator.  The decimal literals of the code (2.2,      *)
(*    0.55, ...) are the rationals they denote.                            *)
(*  - An optional value (None, or a dict key that may be missing) is the   *)
(*    empty sequence <<>>, a present value v is <<v>>.                     *)
(*  - The fields name_en, obtainability and icon_key of a row, which no    *)
(*    step reads, are not carried.                                         *)
(***************************************************************************)
EXTENDS Integers, Sequences, FiniteSets, TLC

---------------------------------------------------------------------------
(* Strings *)

startswith(s, p) == Len(p) <= Len(s) /\ SubSeq(s, 1, Len(p)) = p

endswith(s, p) == Len(p) <= Len(s) /\ SubSeq(s, Len(s) - Len(p) + 1, Len(s)) = p

\* Python `t in s` for two strings.
substring_in(t, s) == \E i \in 1..(Len(s) - Len(t) + 1) : SubSeq(s, i, i + Len(t) - 1) = t

\* str(n) for n >= 0.
RECURSIVE str_int(_)
str_int(n) ==
  LET digit == <<"0", "1", "2", "3", "4", "5", "6", "7", "8", "9">>[(n % 10) + 1]
  IN  IF n < 10 THEN <<digit>> ELSE Append(str_int(n \div 10), digit)

\* ord(c) for the characters of a key.
ord(c) ==
  LET letters == <<"a","b","c","d","e","f","g","h","i","j","k","l","m",
                   "n","o","p","q","r","s","t","u","v","w","x","y","z">>
      digits == <<"0","1","2","3","4","5","6","7","8","9">>
  IN  IF \E i \in 1..26 : letters[i] = c
      THEN 96 + (CHOOSE i \in 1..26 : letters[i] = c)
      ELSE IF \E i \in 1..10 : digits[i] = c
      THEN 47 + (CHOOSE i \in 1..10 : digits[i] = c)
      ELSE IF c = "_" THEN 95
      ELSE 32

\* The code points of a key.
text(s) == [i \in 1..Len(s) |-> ord(s[i])]

\* a < b for two texts: Python compares str by code point, a proper prefix
\* being the smaller.
RECURSIVE str_less_from(_, _, _)
str_less_from(a, b, k) ==
  IF k > Len(b) THEN FALSE
  ELSE IF k > Len(a) THEN TRUE
  ELSE IF a[k] # b[k] THEN a[k] < b[k]
  ELSE str_less_from(a, b, k + 1)

str_less(a, b) == str_less_from(a, b, 1)

---------------------------------------------------------------------------
(* Floats as rationals *)

RECURSIVE GCD(_, _)
GCD(a, b) == IF b = 0 THEN a ELSE GCD(b, a % b)

Rat(n, d) == LET g == GCD(n, d) IN <<n \div g, d \div g>>

RMul(a, b) == Rat(a[1] * b[1], a[2] * b[2])

RAdd(a, b) == Rat(a[1] * b[2] + b[1] * a[2], a[2] * b[2])

RLess(a, b) == a[1] * b[2] < b[1] * a[2]

RLeq(a, b) == a[1] * b[2] <= b[1] * a[2]

RMin(a, b) == IF RLess(b, a) THEN b ELSE a

RMax(a, b) == IF RLess(a, b) THEN b ELSE a

RInt(n) == <<n, 1>>

\* int(x) for x >= 0: truncation.
RFloor(a) == a[1] \div a[2]

\* math.ceil(x) for x >= 0.
RCeil(a) == IF a[1] % a[2] = 0 THEN a[1] \div a[2] ELSE (a[1] \div a[2]) + 1

IntMax(a, b) == IF a >= b THEN a ELSE b

---------------------------------------------------------------------------
(* Configuration tables *)

EXCLUDE_EXACT ==
  {
    <<"a","i","r">>, <<"b","a","r","r","i","e","r">>, <<"b","e","d","r","o","c","k">>,
    <<"c","h","a","i","n","_","c","o","m","m","a","n","d","_","b","l","o","c","k">>,
    <<"c","o","m","m","a","n","d","_","b","l","o","c","k">>,
    <<"c","o","m","m","a","n","d","_","b","l","o","c","k","_","m","i","n","e","c","a","r","t">>,
    <<"d","e","b","u","g","_","s","t","i","c","k">>, <<"d","i","r","t","_","p","a","t","h">>,
    <<"e","n","d","_","p","o","r","t","a","l","_","f","r","a","m","e">>,
    <<"f","a","r","m","l","a","n","d">>, <<"f","r","o","g","s","p","a","w","n">>,
    <<"j","i","g","s","a","w">>, <<"k","n","o","w","l","e","d","g","e","_","b","o","o","k">>,
    <<"l","i","g","h","t">>,
    <<"p","e","t","r","i","f","i","e","d","_","o","a","k","_","s","l","a","b">>,
    <<"r","e","i","n","f","o","r","c","e","d","_","d","e","e","p","s","l","a","t","e">>,
    <<"r","e","p","e","a","t","i","n","g","_","c","o","m","m","a","n","d","_","b","l","o","c","k">>,
    <<"s","p","a","w","n","e","r">>,
    <<"s","t","r","u","c","t","u","r","e","_","b","l","o","c","k">>,
    <<"s","t","r","u","c","t","u","r","e","_","v","o","i","d">>,
    <<"s","u","s","p","i","c","i","o","u","s","_","g","r","a","v","e","l">>,
    <<"s","u","s","p","i","c","i","o","u","s","_","s","a","n","d">>,
    <<"t","r","i","a","l","_","s","p","a","w","n","e","r">>
  }

EXCLUDE_PREFIX ==
  {
    <<"i","n","f","e","s","t","e","d","_">>
  }

EXCLUDE_SUFFIX ==
  {
    <<"_","s","p","a","w","n","_","e","g","g">>
  }

KEYWORD_SETS_farmable ==
  {
    <<"b","a","m","b","o","o">>, <<"b","e","e","t","r","o","o","t">>, <<"b","o","n","e">>,
    <<"c","a","c","t","u","s">>, <<"c","a","r","r","o","t">>, <<"c","h","i","c","k","e","n">>,
    <<"c","l","a","y">>, <<"c","o","b","b","l","e","s","t","o","n","e">>, <<"c","o","d">>,
    <<"d","r","i","e","d","_","k","e","l","p">>, <<"e","g","g">>,
    <<"f","e","a","t","h","e","r">>, <<"g","u","n","p","o","w","d","e","r">>,
    <<"h","o","n","e","y">>, <<"k","e","l","p">>, <<"l","e","a","t","h","e","r">>,
    <<"m","e","l","o","n">>, <<"m","u","t","t","o","n">>,
    <<"n","e","t","h","e","r","_","w","a","r","t">>, <<"o","a","k">>,
    <<"p","o","r","k","c","h","o","p">>, <<"p","o","t","a","t","o">>,
    <<"p","u","m","p","k","i","n">>, <<"r","a","b","b","i","t","_","h","i","d","e">>,
    <<"r","e","d","_","m","u","s","h","r","o","o","m">>,
    <<"r","o","t","t","e","n","_","f","l","e","s","h">>, <<"s","a","l","m","o","n">>,
    <<"s","c","u","t","e">>, <<"s","e","e","d","s">>, <<"s","l","i","m","e">>,
    <<"s","n","o","w","b","a","l","l">>, <<"s","p","i","d","e","r","_","e","y","e">>,
    <<"s","p","r","u","c","e">>, <<"s","t","r","i","n","g">>,
    <<"s","u","g","a","r","_","c","a","n","e">>, <<"t","o","t","e","m">>,
    <<"w","h","e","a","t">>, <<"w","o","o","l">>
  }

KEYWORD_SETS_rare ==
  {
    <<"a","n","c","i","e","n","t","_","d","e","b","r","i","s">>, <<"b","e","a","c","o","n">>,
    <<"d","r","a","g","o","n","_","e","g","g">>, <<"e","c","h","o","_","s","h","a","r","d">>,
    <<"e","l","y","t","r","a">>,
    <<"e","n","c","h","a","n","t","e","d","_","g","o","l","d","e","n","_","a","p","p","l","e">>,
    <<"h","e","a","r","t","_","o","f","_","t","h","e","_","s","e","a">>, <<"m","a","c","e">>,
    <<"m","u","s","i","c","_","d","i","s","c">>,
    <<"n","e","t","h","e","r","_","s","t","a","r">>, <<"n","e","t","h","e","r","i","t","e">>,
    <<"o","m","i","n","o","u","s","_","t","r","i","a","l","_","k","e","y">>,
    <<"r","e","c","o","v","e","r","y","_","c","o","m","p","a","s","s">>,
    <<"s","m","i","t","h","i","n","g","_","t","e","m","p","l","a","t","e">>,
    <<"s","n","i","f","f","e","r","_","e","g","g">>, <<"t","r","i","d","e","n","t">>,
    <<"w","i","t","h","e","r","_","s","k","e","l","e","t","o","n","_","s","k","u","l","l">>
  }

KEYWORD_SETS_redstone ==
  {
    <<"c","o","m","p","a","r","a","t","o","r">>, <<"d","i","s","p","e","n","s","e","r">>,
    <<"d","r","o","p","p","e","r">>, <<"o","b","s","e","r","v","e","r">>,
    <<"p","i","s","t","o","n">>, <<"r","e","d","s","t","o","n","e">>,
    <<"r","e","p","e","a","t","e","r">>, <<"s","c","u","l","k","_","s","e","n","s","o","r">>,
    <<"t","a","r","g","e","t">>, <<"t","r","i","p","w","i","r","e","_","h","o","o","k">>
  }

KEYWORD_SETS_food ==
  {
    <<"a","p","p","l","e">>, <<"b","e","e","f">>, <<"b","e","e","t","r","o","o","t">>,
    <<"b","r","e","a","d">>, <<"c","a","k","e">>, <<"c","a","r","r","o","t">>,
    <<"c","h","i","c","k","e","n">>, <<"c","o","d">>, <<"c","o","o","k","i","e">>,
    <<"g","o","l","d","e","n","_","a","p","p","l","e">>,
    <<"g","o","l","d","e","n","_","c","a","r","r","o","t">>,
    <<"m","u","s","h","r","o","o","m","_","s","t","e","w">>, <<"m","u","t","t","o","n">>,
    <<"p","o","r","k","c","h","o","p">>, <<"p","o","t","a","t","o">>,
    <<"p","u","m","p","k","i","n","_","p","i","e">>,
    <<"r","a","b","b","i","t","_","s","t","e","w">>, <<"s","a","l","m","o","n">>,
    <<"s","u","s","p","i","c","i","o","u","s","_","s","t","e","w">>
  }

KEYWORD_SETS_combat ==
  {
    <<"a","r","r","o","w">>, <<"a","x","e">>, <<"b","o","o","t","s">>, <<"b","o","w">>,
    <<"c","h","e","s","t","p","l","a","t","e">>, <<"c","r","o","s","s","b","o","w">>,
    <<"h","e","l","m","e","t">>, <<"l","e","g","g","i","n","g","s">>, <<"m","a","c","e">>,
    <<"s","h","i","e","l","d">>, <<"s","p","e","c","t","r","a","l","_","a","r","r","o","w">>,
    <<"s","w","o","r","d">>, <<"t","i","p","p","e","d","_","a","r","r","o","w">>,
    <<"t","r","i","d","e","n","t">>
  }

KEYWORD_SETS_tool ==
  {
    <<"a","x","e">>, <<"f","i","s","h","i","n","g","_","r","o","d">>,
    <<"f","l","i","n","t","_","a","n","d","_","s","t","e","e","l">>, <<"h","o","e">>,
    <<"p","i","c","k","a","x","e">>, <<"s","h","e","a","r","s">>, <<"s","h","o","v","e","l">>
  }

LIMITED_ITEMS ==
  {
    <<"d","r","a","g","o","n","_","e","g","g">>, <<"e","l","y","t","r","a">>,
    <<"e","n","c","h","a","n","t","e","d","_","g","o","l","d","e","n","_","a","p","p","l","e">>,
    <<"h","e","a","r","t","_","o","f","_","t","h","e","_","s","e","a">>,
    <<"n","e","t","h","e","r","_","s","t","a","r">>,
    <<"o","m","i","n","o","u","s","_","t","r","i","a","l","_","k","e","y">>,
    <<"s","n","i","f","f","e","r","_","e","g","g">>
  }

PER_ITEM_TOKENS ==
  {
    <<"a","n","c","i","e","n","t","_","d","e","b","r","i","s">>, <<"b","e","a","c","o","n">>,
    <<"d","i","a","m","o","n","d">>, <<"d","i","s","c","_","f","r","a","g","m","e","n","t">>,
    <<"d","r","a","g","o","n","_","e","g","g">>,
    <<"d","r","a","g","o","n","_","h","e","a","d">>,
    <<"e","c","h","o","_","s","h","a","r","d">>, <<"e","l","y","t","r","a">>,
    <<"e","n","c","h","a","n","t","e","d","_","g","o","l","d","e","n","_","a","p","p","l","e">>,
    <<"g","h","a","s","t","_","t","e","a","r">>,
    <<"g","o","l","d","e","n","_","a","p","p","l","e">>,
    <<"h","e","a","r","t","_","o","f","_","t","h","e","_","s","e","a">>, <<"m","a","c","e">>,
    <<"m","u","s","i","c","_","d","i","s","c">>,
    <<"n","a","u","t","i","l","u","s","_","s","h","e","l","l">>,
    <<"n","e","t","h","e","r","_","s","t","a","r">>, <<"n","e","t","h","e","r","i","t","e">>,
    <<"o","m","i","n","o","u","s","_","t","r","i","a","l","_","k","e","y">>,
    <<"r","e","c","o","v","e","r","y","_","c","o","m","p","a","s","s">>,
    <<"s","h","u","l","k","e","r","_","s","h","e","l","l">>,
    <<"s","m","i","t","h","i","n","g","_","t","e","m","p","l","a","t","e">>,
    <<"t","o","t","e","m">>, <<"t","r","i","d","e","n","t">>,
    <<"w","i","t","h","e","r","_","s","k","e","l","e","t","o","n","_","s","k","u","l","l">>
  }

UNDEFINED_PRICE_KEYS ==
  {
    <<"d","r","a","g","o","n","_","e","g","g">>,
    <<"e","n","c","h","a","n","t","e","d","_","g","o","l","d","e","n","_","a","p","p","l","e">>,
    <<"e","n","d","_","c","r","y","s","t","a","l">>,
    <<"g","h","a","s","t","_","t","e","a","r">>
  }

FLOAT_OVERRIDES ==
  <<
    <<<<"o","a","k","_","l","o","g">>, <<1, 64>>>>,
    <<<<"s","p","r","u","c","e","_","l","o","g">>, <<1, 64>>>>,
    <<<<"b","i","r","c","h","_","l","o","g">>, <<1, 64>>>>,
    <<<<"j","u","n","g","l","e","_","l","o","g">>, <<1, 64>>>>,
    <<<<"a","c","a","c","i","a","_","l","o","g">>, <<1, 64>>>>,
    <<<<"d","a","r","k","_","o","a","k","_","l","o","g">>, <<1, 64>>>>,
    <<<<"m","a","n","g","r","o","v","e","_","l","o","g">>, <<1, 64>>>>,
    <<<<"c","h","e","r","r","y","_","l","o","g">>, <<1, 64>>>>,
    <<<<"p","a","l","e","_","o","a","k","_","l","o","g">>, <<1, 64>>>>,
    <<<<"c","r","i","m","s","o","n","_","s","t","e","m">>, <<1, 64>>>>,
    <<<<"w","a","r","p","e","d","_","s","t","e","m">>, <<1, 64>>>>,
    <<<<"s","t","r","i","p","p","e","d","_","o","a","k","_","l","o","g">>, <<1, 64>>>>,
    <<<<"s","t","r","i","p","p","e","d","_","s","p","r","u","c","e","_","l","o","g">>, <<1, 64>>>>,
    <<<<"s","t","r","i","p","p","e","d","_","b","i","r","c","h","_","l","o","g">>, <<1, 64>>>>,
    <<<<"s","t","r","i","p","p","e","d","_","j","u","n","g","l","e","_","l","o","g">>, <<1, 64>>>>,
    <<<<"s","t","r","i","p","p","e","d","_","a","c","a","c","i","a","_","l","o","g">>, <<1, 64>>>>,
    <<<<"s","t","r","i","p","p","e","d","_","d","a","r","k","_","o","a","k","_","l","o","g">>, <<1, 64>>>>,
    <<<<"s","t","r","i","p","p","e","d","_","m","a","n","g","r","o","v","e","_","l","o","g">>, <<1, 64>>>>,
    <<<<"s","t","r","i","p","p","e","d","_","c","h","e","r","r","y","_","l","o","g">>, <<1, 64>>>>,
    <<<<"s","t","r","i","p","p","e","d","_","p","a","l","e","_","o","a","k","_","l","o","g">>, <<1, 64>>>>,
    <<<<"s","t","r","i","p","p","e","d","_","c","r","i","m","s","o","n","_","s","t","e","m">>, <<1, 64>>>>,
    <<<<"s","t","r","i","p","p","e","d","_","w","a","r","p","e","d","_","s","t","e","m">>, <<1, 64>>>>,
    <<<<"b","a","m","b","o","o","_","b","l","o","c","k">>, <<1, 64>>>>,
    <<<<"d","i","a","m","o","n","d","_","o","r","e">>, <<1, 1>>>>,
    <<<<"d","e","e","p","s","l","a","t","e","_","d","i","a","m","o","n","d","_","o","r","e">>, <<1, 1>>>>,
    <<<<"d","i","a","m","o","n","d">>, <<1, 1>>>>,
    <<<<"d","i","a","m","o","n","d","_","b","l","o","c","k">>, <<9, 1>>>>,
    <<<<"r","a","w","_","i","r","o","n">>, <<1, 64>>>>,
    <<<<"i","r","o","n","_","i","n","g","o","t">>, <<1, 64>>>>,
    <<<<"i","r","o","n","_","b","l","o","c","k">>, <<9, 64>>>>,
    <<<<"r","a","w","_","c","o","p","p","e","r">>, <<1, 64>>>>,
    <<<<"c","o","p","p","e","r","_","i","n","g","o","t">>, <<1, 64>>>>,
    <<<<"c","o","p","p","e","r","_","b","l","o","c","k">>, <<9, 64>>>>,
    <<<<"r","a","w","_","g","o","l","d">>, <<1, 32>>>>,
    <<<<"g","o","l","d","_","i","n","g","o","t">>, <<1, 32>>>>,
    <<<<"g","o","l","d","_","b","l","o","c","k">>, <<9, 32>>>>,
    <<<<"e","m","e","r","a","l","d">>, <<11, 20>>>>,
    <<<<"e","m","e","r","a","l","d","_","b","l","o","c","k">>, <<49, 10>>>>,
    <<<<"c","o","a","l">>, <<1, 64>>>>,
    <<<<"c","h","a","r","c","o","a","l">>, <<1, 64>>>>,
    <<<<"l","a","p","i","s","_","l","a","z","u","l","i">>, <<1, 64>>>>,
    <<<<"r","e","d","s","t","o","n","e">>, <<1, 64>>>>,
    <<<<"q","u","a","r","t","z">>, <<1, 32>>>>,
    <<<<"a","n","c","i","e","n","t","_","d","e","b","r","i","s">>, <<8, 1>>>>,
    <<<<"n","e","t","h","e","r","i","t","e","_","s","c","r","a","p">>, <<5, 1>>>>,
    <<<<"n","e","t","h","e","r","i","t","e","_","i","n","g","o","t">>, <<20, 1>>>>,
    <<<<"n","e","t","h","e","r","i","t","e","_","b","l","o","c","k">>, <<180, 1>>>>,
    <<<<"t","o","t","e","m","_","o","f","_","u","n","d","y","i","n","g">>, <<2, 1>>>>,
    <<<<"e","l","y","t","r","a">>, <<180, 1>>>>,
    <<<<"s","h","u","l","k","e","r","_","s","h","e","l","l">>, <<12, 1>>>>,
    <<<<"n","e","t","h","e","r","_","s","t","a","r">>, <<70, 1>>>>,
    <<<<"b","e","a","c","o","n">>, <<56, 1>>>>,
    <<<<"e","n","c","h","a","n","t","e","d","_","g","o","l","d","e","n","_","a","p","p","l","e">>, <<220, 1>>>>,
    <<<<"t","r","i","d","e","n","t">>, <<35, 1>>>>,
    <<<<"d","r","a","g","o","n","_","e","g","g">>, <<500, 1>>>>,
    <<<<"d","r","a","g","o","n","_","h","e","a","d">>, <<110, 1>>>>,
    <<<<"h","e","a","r","t","_","o","f","_","t","h","e","_","s","e","a">>, <<30, 1>>>>,
    <<<<"n","a","u","t","i","l","u","s","_","s","h","e","l","l">>, <<3, 1>>>>,
    <<<<"e","c","h","o","_","s","h","a","r","d">>, <<8, 1>>>>,
    <<<<"d","i","s","c","_","f","r","a","g","m","e","n","t","_","5">>, <<4, 1>>>>,
    <<<<"r","e","c","o","v","e","r","y","_","c","o","m","p","a","s","s">>, <<30, 1>>>>,
    <<<<"b","o","t","t","l","e","_","o","_","e","n","c","h","a","n","t","i","n","g">>, <<2, 1>>>>,
    <<<<"e","n","c","h","a","n","t","e","d","_","b","o","o","k">>, <<6, 1>>>>,
    <<<<"o","m","i","n","o","u","s","_","t","r","i","a","l","_","k","e","y">>, <<14, 1>>>>,
    <<<<"w","i","t","h","e","r","_","s","k","e","l","e","t","o","n","_","s","k","u","l","l">>, <<7, 1>>>>,
    <<<<"g","h","a","s","t","_","t","e","a","r">>, <<2, 1>>>>,
    <<<<"b","l","a","z","e","_","r","o","d">>, <<1, 2>>>>,
    <<<<"e","n","d","e","r","_","p","e","a","r","l">>, <<3, 5>>>>,
    <<<<"g","u","n","p","o","w","d","e","r">>, <<1, 5>>>>,
    <<<<"s","l","i","m","e","_","b","a","l","l">>, <<7, 20>>>>,
    <<<<"g","o","l","d","e","n","_","a","p","p","l","e">>, <<4, 1>>>>,
    <<<<"g","o","l","d","e","n","_","c","a","r","r","o","t">>, <<1, 1>>>>
  >>

INTEGER_OVERRIDES ==
  <<
    <<<<"o","a","k","_","l","o","g">>, 64, 1>>,
    <<<<"s","p","r","u","c","e","_","l","o","g">>, 64, 1>>,
    <<<<"b","i","r","c","h","_","l","o","g">>, 64, 1>>,
    <<<<"j","u","n","g","l","e","_","l","o","g">>, 64, 1>>,
    <<<<"a","c","a","c","i","a","_","l","o","g">>, 64, 1>>,
    <<<<"d","a","r","k","_","o","a","k","_","l","o","g">>, 64, 1>>,
    <<<<"m","a","n","g","r","o","v","e","_","l","o","g">>, 64, 1>>,
    <<<<"c","h","e","r","r","y","_","l","o","g">>, 64, 1>>,
    <<<<"p","a","l","e","_","o","a","k","_","l","o","g">>, 64, 1>>,
    <<<<"c","r","i","m","s","o","n","_","s","t","e","m">>, 64, 1>>,
    <<<<"w","a","r","p","e","d","_","s","t","e","m">>, 64, 1>>,
    <<<<"d","i","a","m","o","n","d","_","o","r","e">>, 1, 1>>,
    <<<<"d","e","e","p","s","l","a","t","e","_","d","i","a","m","o","n","d","_","o","r","e">>, 1, 1>>,
    <<<<"d","i","a","m","o","n","d">>, 1, 1>>,
    <<<<"t","o","t","e","m","_","o","f","_","u","n","d","y","i","n","g">>, 1, 2>>,
    <<<<"g","o","l","d","e","n","_","a","p","p","l","e">>, 1, 4>>,
    <<<<"g","h","a","s","t","_","t","e","a","r">>, 1, 2>>,
    <<<<"d","i","s","c","_","f","r","a","g","m","e","n","t","_","5">>, 1, 4>>,
    <<<<"o","m","i","n","o","u","s","_","t","r","i","a","l","_","k","e","y">>, 1, 14>>,
    <<<<"n","e","t","h","e","r","i","t","e","_","i","n","g","o","t">>, 1, 20>>,
    <<<<"b","e","a","c","o","n">>, 1, 56>>,
    <<<<"i","r","o","n","_","i","n","g","o","t">>, 64, 1>>,
    <<<<"b","r","e","a","d">>, 64, 1>>,
    <<<<"l","a","p","i","s","_","l","a","z","u","l","i">>, 64, 1>>,
    <<<<"r","e","d","s","t","o","n","e">>, 64, 1>>,
    <<<<"c","o","a","l">>, 64, 1>>,
    <<<<"c","h","a","r","c","o","a","l">>, 64, 1>>
  >>

ANTI_DUMP_MINIMUMS ==
  <<
    <<<<"n","e","t","h","e","r","i","t","e","_","i","n","g","o","t">>, 1, 20>>,
    <<<<"b","e","a","c","o","n">>, 1, 50>>,
    <<<<"t","o","t","e","m","_","o","f","_","u","n","d","y","i","n","g">>, 1, 2>>,
    <<<<"e","l","y","t","r","a">>, 1, 120>>,
    <<<<"d","r","a","g","o","n","_","h","e","a","d">>, 1, 90>>,
    <<<<"s","h","u","l","k","e","r","_","s","h","e","l","l">>, 1, 10>>
  >>

COMPRESSION_RELATIONS ==
  <<
    <<<<"c","o","a","l">>, <<"c","o","a","l","_","b","l","o","c","k">>, <<9, 1>>>>,
    <<<<"d","i","a","m","o","n","d">>, <<"d","i","a","m","o","n","d","_","b","l","o","c","k">>, <<9, 1>>>>,
    <<<<"e","m","e","r","a","l","d">>, <<"e","m","e","r","a","l","d","_","b","l","o","c","k">>, <<9, 1>>>>,
    <<<<"r","e","d","s","t","o","n","e">>, <<"r","e","d","s","t","o","n","e","_","b","l","o","c","k">>, <<9, 1>>>>,
    <<<<"l","a","p","i","s","_","l","a","z","u","l","i">>, <<"l","a","p","i","s","_","b","l","o","c","k">>, <<9, 1>>>>,
    <<<<"q","u","a","r","t","z">>, <<"q","u","a","r","t","z","_","b","l","o","c","k">>, <<9, 1>>>>,
    <<<<"i","r","o","n","_","i","n","g","o","t">>, <<"i","r","o","n","_","b","l","o","c","k">>, <<9, 1>>>>,
    <<<<"g","o","l","d","_","i","n","g","o","t">>, <<"g","o","l","d","_","b","l","o","c","k">>, <<9, 1>>>>,
    <<<<"c","o","p","p","e","r","_","i","n","g","o","t">>, <<"c","o","p","p","e","r","_","b","l","o","c","k">>, <<9, 1>>>>,
    <<<<"r","a","w","_","i","r","o","n">>, <<"r","a","w","_","i","r","o","n","_","b","l","o","c","k">>, <<9, 1>>>>,
    <<<<"r","a","w","_","g","o","l","d">>, <<"r","a","w","_","g","o","l","d","_","b","l","o","c","k">>, <<9, 1>>>>,
    <<<<"r","a","w","_","c","o","p","p","e","r">>, <<"r","a","w","_","c","o","p","p","e","r","_","b","l","o","c","k">>, <<9, 1>>>>,
    <<<<"n","e","t","h","e","r","i","t","e","_","i","n","g","o","t">>, <<"n","e","t","h","e","r","i","t","e","_","b","l","o","c","k">>, <<9, 1>>>>
  >>

ORE_FORTUNE_RELATIONS ==
  <<
    <<<<"c","o","a","l","_","o","r","e">>, <<"c","o","a","l">>, <<11, 5>>>>,
    <<<<"d","e","e","p","s","l","a","t","e","_","c","o","a","l","_","o","r","e">>, <<"c","o","a","l">>, <<11, 5>>>>,
    <<<<"e","m","e","r","a","l","d","_","o","r","e">>, <<"e","m","e","r","a","l","d">>, <<11, 5>>>>,
    <<<<"d","e","e","p","s","l","a","t","e","_","e","m","e","r","a","l","d","_","o","r","e">>, <<"e","m","e","r","a","l","d">>, <<11, 5>>>>,
    <<<<"i","r","o","n","_","o","r","e">>, <<"r","a","w","_","i","r","o","n">>, <<11, 5>>>>,
    <<<<"d","e","e","p","s","l","a","t","e","_","i","r","o","n","_","o","r","e">>, <<"r","a","w","_","i","r","o","n">>, <<11, 5>>>>,
    <<<<"g","o","l","d","_","o","r","e">>, <<"r","a","w","_","g","o","l","d">>, <<11, 5>>>>,
    <<<<"d","e","e","p","s","l","a","t","e","_","g","o","l","d","_","o","r","e">>, <<"r","a","w","_","g","o","l","d">>, <<11, 5>>>>,
    <<<<"c","o","p","p","e","r","_","o","r","e">>, <<"r","a","w","_","c","o","p","p","e","r">>, <<11, 5>>>>,
    <<<<"d","e","e","p","s","l","a","t","e","_","c","o","p","p","e","r","_","o","r","e">>, <<"r","a","w","_","c","o","p","p","e","r">>, <<11, 5>>>>,
    <<<<"n","e","t","h","e","r","_","q","u","a","r","t","z","_","o","r","e">>, <<"q","u","a","r","t","z">>, <<11, 5>>>>,
    <<<<"r","e","d","s","t","o","n","e","_","o","r","e">>, <<"r","e","d","s","t","o","n","e">>, <<99, 10>>>>,
    <<<<"d","e","e","p","s","l","a","t","e","_","r","e","d","s","t","o","n","e","_","o","r","e">>, <<"r","e","d","s","t","o","n","e">>, <<99, 10>>>>,
    <<<<"l","a","p","i","s","_","o","r","e">>, <<"l","a","p","i","s","_","l","a","z","u","l","i">>, <<143, 10>>>>,
    <<<<"d","e","e","p","s","l","a","t","e","_","l","a","p","i","s","_","o","r","e">>, <<"l","a","p","i","s","_","l","a","z","u","l","i">>, <<143, 10>>>>,
    <<<<"n","e","t","h","e","r","_","g","o","l","d","_","o","r","e">>, <<"g","o","l","d","_","n","u","g","g","e","t">>, <<44, 5>>>>
  >>

DEEPSLATE_PRICE_LINKS ==
  <<
    <<<<"c","o","a","l","_","o","r","e">>, <<"d","e","e","p","s","l","a","t","e","_","c","o","a","l","_","o","r","e">>>>,
    <<<<"e","m","e","r","a","l","d","_","o","r","e">>, <<"d","e","e","p","s","l","a","t","e","_","e","m","e","r","a","l","d","_","o","r","e">>>>,
    <<<<"i","r","o","n","_","o","r","e">>, <<"d","e","e","p","s","l","a","t","e","_","i","r","o","n","_","o","r","e">>>>,
    <<<<"g","o","l","d","_","o","r","e">>, <<"d","e","e","p","s","l","a","t","e","_","g","o","l","d","_","o","r","e">>>>,
    <<<<"c","o","p","p","e","r","_","o","r","e">>, <<"d","e","e","p","s","l","a","t","e","_","c","o","p","p","e","r","_","o","r","e">>>>,
    <<<<"r","e","d","s","t","o","n","e","_","o","r","e">>, <<"d","e","e","p","s","l","a","t","e","_","r","e","d","s","t","o","n","e","_","o","r","e">>>>,
    <<<<"l","a","p","i","s","_","o","r","e">>, <<"d","e","e","p","s","l","a","t","e","_","l","a","p","i","s","_","o","r","e">>>>
  >>

ENCHANTED_BOOK_VARIANTS ==
  <<
    \* "Zashchita"
    [key |-> <<"p","r","o","t","e","c","t","i","o","n">>,
     name_ru |-> <<1047, 1072, 1097, 1080, 1090, 1072>>,
     max_level |-> 4, tier |-> 2, treasure |-> FALSE],
    \* "Ogneupornost"
    [key |-> <<"f","i","r","e","_","p","r","o","t","e","c","t","i","o","n">>,
     name_ru |-> <<1054, 1075, 1085, 1077, 1091, 1087, 1086, 1088, 1085,
                   1086, 1089, 1090, 1100>>,
     max_level |-> 4, tier |-> 2, treasure |-> FALSE],
    \* "Vzryvoustoychivost"
    [key |-> <<"b","l","a","s","t","_","p","r","o","t","e","c","t","i","o","n">>,
     name_ru |-> <<1042, 1079, 1088, 1099, 1074, 1086, 1091, 1089, 1090,
                   1086, 1081, 1095, 1080, 1074, 1086, 1089, 1090, 1100>>,
     max_level |-> 4, tier |-> 2, treasure |-> FALSE],
    \* "Zashchita ot snaryadov"
    [key |-> <<"p","r","o","j","e","c","t","i","l","e","_","p","r","o","t","e","c","t","i","o","n">>,
     name_ru |-> <<1047, 1072, 1097, 1080, 1090, 1072, 32, 1086, 1090, 32,
                   1089, 1085, 1072, 1088, 1103, 1076, 1086, 1074>>,
     max_level |-> 4, tier |-> 2, treasure |-> FALSE],
    \* "Nevesomost"
    [key |-> <<"f","e","a","t","h","e","r","_","f","a","l","l","i","n","g">>,
     name_ru |-> <<1053, 1077, 1074, 1077, 1089, 1086, 1084, 1086, 1089,
                   1090, 1100>>,
     max_level |-> 4, tier |-> 2, treasure |-> FALSE],
    \* "Shipy"
    [key |-> <<"t","h","o","r","n","s">>,
     name_ru |-> <<1064, 1080, 1087, 1099>>,
     max_level |-> 3, tier |-> 3, treasure |-> FALSE],
    \* "Podvodnik"
    [key |-> <<"r","e","s","p","i","r","a","t","i","o","n">>,
     name_ru |-> <<1055, 1086, 1076, 1074, 1086, 1076, 1085, 1080, 1082>>,
     max_level |-> 3, tier |-> 2, treasure |-> FALSE],
    \* "Podvodnaya speshka"
    [key |-> <<"a","q","u","a","_","a","f","f","i","n","i","t","y">>,
     name_ru |-> <<1055, 1086, 1076, 1074, 1086, 1076, 1085, 1072, 1103,
                   32, 1089, 1087, 1077, 1096, 1082, 1072>>,
     max_level |-> 1, tier |-> 2, treasure |-> FALSE],
    \* "Podvodnaya khodba"
    [key |-> <<"d","e","p","t","h","_","s","t","r","i","d","e","r">>,
     name_ru |-> <<1055, 1086, 1076, 1074, 1086, 1076, 1085, 1072, 1103,
                   32, 1093, 1086, 1076, 1100, 1073, 1072>>,
     max_level |-> 3, tier |-> 2, treasure |-> FALSE],
    \* "Ledokhod"
    [key |-> <<"f","r","o","s","t","_","w","a","l","k","e","r">>,
     name_ru |-> <<1051, 1077, 1076, 1086, 1093, 1086, 1076>>,
     max_level |-> 2, tier |-> 3, treasure |-> TRUE],
    \* "Proklyatie nesemnosti"
    [key |-> <<"b","i","n","d","i","n","g","_","c","u","r","s","e">>,
     name_ru |-> <<1055, 1088, 1086, 1082, 1083, 1103, 1090, 1080, 1077,
                   32, 1085, 1077, 1089, 1098, 1105, 1084, 1085, 1086,
                   1089, 1090, 1080>>,
     max_level |-> 1, tier |-> 2, treasure |-> TRUE],
    \* "Skorost dushi"
    [key |-> <<"s","o","u","l","_","s","p","e","e","d">>,
     name_ru |-> <<1057, 1082, 1086, 1088, 1086, 1089, 1090, 1100, 32,
                   1076, 1091, 1096, 1080>>,
     max_level |-> 3, tier |-> 3, treasure |-> TRUE],
    \* "Provorstvo"
    [key |-> <<"s","w","i","f","t","_","s","n","e","a","k">>,
     name_ru |-> <<1055, 1088, 1086, 1074, 1086, 1088, 1089, 1090, 1074,
                   1086>>,
     max_level |-> 3, tier |-> 4, treasure |-> TRUE],
    \* "Ostrota"
    [key |-> <<"s","h","a","r","p","n","e","s","s">>,
     name_ru |-> <<1054, 1089, 1090, 1088, 1086, 1090, 1072>>,
     max_level |-> 5, tier |-> 3, treasure |-> FALSE],
    \* "Nebesnaya kara"
    [key |-> <<"s","m","i","t","e">>,
     name_ru |-> <<1053, 1077, 1073, 1077, 1089, 1085, 1072, 1103, 32,
                   1082, 1072, 1088, 1072>>,
     max_level |-> 5, tier |-> 2, treasure |-> FALSE],
    \* "Bich chlenistonogikh"
    [key |-> <<"b","a","n","e","_","o","f","_","a","r","t","h","r","o","p","o","d","s">>,
     name_ru |-> <<1041, 1080, 1095, 32, 1095, 1083, 1077, 1085, 1080,
                   1089, 1090, 1086, 1085, 1086, 1075, 1080, 1093>>,
     max_level |-> 5, tier |-> 2, treasure |-> FALSE],
    \* "Otdacha"
    [key |-> <<"k","n","o","c","k","b","a","c","k">>,
     name_ru |-> <<1054, 1090, 1076, 1072, 1095, 1072>>,
     max_level |-> 2, tier |-> 2, treasure |-> FALSE],
    \* "Zagovor ognya"
    [key |-> <<"f","i","r","e","_","a","s","p","e","c","t">>,
     name_ru |-> <<1047, 1072, 1075, 1086, 1074, 1086, 1088, 32, 1086,
                   1075, 1085, 1103>>,
     max_level |-> 2, tier |-> 3, treasure |-> FALSE],
    \* "Dobycha"
    [key |-> <<"l","o","o","t","i","n","g">>,
     name_ru |-> <<1044, 1086, 1073, 1099, 1095, 1072>>,
     max_level |-> 3, tier |-> 3, treasure |-> FALSE],
    \* "Razyashchiy klinok"
    [key |-> <<"s","w","e","e","p","i","n","g","_","e","d","g","e">>,
     name_ru |-> <<1056, 1072, 1079, 1103, 1097, 1080, 1081, 32, 1082,
                   1083, 1080, 1085, 1086, 1082>>,
     max_level |-> 3, tier |-> 2, treasure |-> FALSE],
    \* "Effektivnost"
    [key |-> <<"e","f","f","i","c","i","e","n","c","y">>,
     name_ru |-> <<1069, 1092, 1092, 1077, 1082, 1090, 1080, 1074, 1085,
                   1086, 1089, 1090, 1100>>,
     max_level |-> 5, tier |-> 2, treasure |-> FALSE],
    \* "Shelkovoe kasanie"
    [key |-> <<"s","i","l","k","_","t","o","u","c","h">>,
     name_ru |-> <<1064, 1105, 1083, 1082, 1086, 1074, 1086, 1077, 32,
                   1082, 1072, 1089, 1072, 1085, 1080, 1077>>,
     max_level |-> 1, tier |-> 4, treasure |-> FALSE],
    \* "Prochnost"
    [key |-> <<"u","n","b","r","e","a","k","i","n","g">>,
     name_ru |-> <<1055, 1088, 1086, 1095, 1085, 1086, 1089, 1090, 1100>>,
     max_level |-> 3, tier |-> 2, treasure |-> FALSE],
    \* "Udacha"
    [key |-> <<"f","o","r","t","u","n","e">>,
     name_ru |-> <<1059, 1076, 1072, 1095, 1072>>,
     max_level |-> 3, tier |-> 4, treasure |-> FALSE],
    \* "Sila"
    [key |-> <<"p","o","w","e","r">>,
     name_ru |-> <<1057, 1080, 1083, 1072>>,
     max_level |-> 5, tier |-> 2, treasure |-> FALSE],
    \* "Otbrasyvanie"
    [key |-> <<"p","u","n","c","h">>,
     name_ru |-> <<1054, 1090, 1073, 1088, 1072, 1089, 1099, 1074, 1072,
                   1085, 1080, 1077>>,
     max_level |-> 2, tier |-> 2, treasure |-> FALSE],
    \* "Goryashchaya strela"
    [key |-> <<"f","l","a","m","e">>,
     name_ru |-> <<1043, 1086, 1088, 1103, 1097, 1072, 1103, 32, 1089,
                   1090, 1088, 1077, 1083, 1072>>,
     max_level |-> 1, tier |-> 3, treasure |-> FALSE],
    \* "Beskonechnost"
    [key |-> <<"i","n","f","i","n","i","t","y">>,
     name_ru |-> <<1041, 1077, 1089, 1082, 1086, 1085, 1077, 1095, 1085,
                   1086, 1089, 1090, 1100>>,
     max_level |-> 1, tier |-> 4, treasure |-> FALSE],
    \* "Udacha morya"
    [key |-> <<"l","u","c","k","_","o","f","_","t","h","e","_","s","e","a">>,
     name_ru |-> <<1059, 1076, 1072, 1095, 1072, 32, 1084, 1086, 1088,
                   1103>>,
     max_level |-> 3, tier |-> 3, treasure |-> FALSE],
    \* "Primanka"
    [key |-> <<"l","u","r","e">>,
     name_ru |-> <<1055, 1088, 1080, 1084, 1072, 1085, 1082, 1072>>,
     max_level |-> 3, tier |-> 2, treasure |-> FALSE],
    \* "Vernost"
    [key |-> <<"l","o","y","a","l","t","y">>,
     name_ru |-> <<1042, 1077, 1088, 1085, 1086, 1089, 1090, 1100>>,
     max_level |-> 3, tier |-> 3, treasure |-> FALSE],
    \* "Pronzatel"
    [key |-> <<"i","m","p","a","l","i","n","g">>,
     name_ru |-> <<1055, 1088, 1086, 1085, 1079, 1072, 1090, 1077, 1083,
                   1100>>,
     max_level |-> 5, tier |-> 2, treasure |-> FALSE],
    \* "Tyagun"
    [key |-> <<"r","i","p","t","i","d","e">>,
     name_ru |-> <<1058, 1103, 1075, 1091, 1085>>,
     max_level |-> 3, tier |-> 3, treasure |-> FALSE],
    \* "Gromoverzhets"
    [key |-> <<"c","h","a","n","n","e","l","i","n","g">>,
     name_ru |-> <<1043, 1088, 1086, 1084, 1086, 1074, 1077, 1088, 1078,
                   1077, 1094>>,
     max_level |-> 1, tier |-> 4, treasure |-> FALSE],
    \* "Troynoy vystrel"
    [key |-> <<"m","u","l","t","i","s","h","o","t">>,
     name_ru |-> <<1058, 1088, 1086, 1081, 1085, 1086, 1081, 32, 1074,
                   1099, 1089, 1090, 1088, 1077, 1083>>,
     max_level |-> 1, tier |-> 3, treasure |-> FALSE],
    \* "Probivanie"
    [key |-> <<"p","i","e","r","c","i","n","g">>,
     name_ru |-> <<1055, 1088, 1086, 1073, 1080, 1074, 1072, 1085, 1080,
                   1077>>,
     max_level |-> 4, tier |-> 2, treasure |-> FALSE],
    \* "Bystraya perezaryadka"
    [key |-> <<"q","u","i","c","k","_","c","h","a","r","g","e">>,
     name_ru |-> <<1041, 1099, 1089, 1090, 1088, 1072, 1103, 32, 1087,
                   1077, 1088, 1077, 1079, 1072, 1088, 1103, 1076, 1082,
                   1072>>,
     max_level |-> 3, tier |-> 2, treasure |-> FALSE],
    \* "Plotnost"
    [key |-> <<"d","e","n","s","i","t","y">>,
     name_ru |-> <<1055, 1083, 1086, 1090, 1085, 1086, 1089, 1090, 1100>>,
     max_level |-> 5, tier |-> 3, treasure |-> FALSE],
    \* "Proboy"
    [key |-> <<"b","r","e","a","c","h">>,
     name_ru |-> <<1055, 1088, 1086, 1073, 1086, 1081>>,
     max_level |-> 4, tier |-> 3, treasure |-> FALSE],
    \* "Poryv vetra"
    [key |-> <<"w","i","n","d","_","b","u","r","s","t">>,
     name_ru |-> <<1055, 1086, 1088, 1099, 1074, 32, 1074, 1077, 1090,
                   1088, 1072>>,
     max_level |-> 3, tier |-> 4, treasure |-> FALSE],
    \* "Pochinka"
    [key |-> <<"m","e","n","d","i","n","g">>,
     name_ru |-> <<1055, 1086, 1095, 1080, 1085, 1082, 1072>>,
     max_level |-> 1, tier |-> 5, treasure |-> TRUE],
    \* "Proklyatie utraty"
    [key |-> <<"v","a","n","i","s","h","i","n","g","_","c","u","r","s","e">>,
     name_ru |-> <<1055, 1088, 1086, 1082, 1083, 1103, 1090, 1080, 1077,
                   32, 1091, 1090, 1088, 1072, 1090, 1099>>,
     max_level |-> 1, tier |-> 2, treasure |-> TRUE]
  >>

\* "Rudy i resursy"
CategoryOres ==
  <<1056, 1091, 1076, 1099, 32, 1080, 32, 1088, 1077, 1089, 1091, 1088,
    1089, 1099>>

\* "Redstoun i mekhanizmy"
CategoryRedstone ==
  <<1056, 1077, 1076, 1089, 1090, 1086, 1091, 1085, 32, 1080, 32, 1084,
    1077, 1093, 1072, 1085, 1080, 1079, 1084, 1099>>

\* "Instrumenty i boy"
CategoryCombat ==
  <<1048, 1085, 1089, 1090, 1088, 1091, 1084, 1077, 1085, 1090, 1099, 32,
    1080, 32, 1073, 1086, 1081>>

\* "Eda i fermerstvo"
CategoryFood ==
  <<1045, 1076, 1072, 32, 1080, 32, 1092, 1077, 1088, 1084, 1077, 1088,
    1089, 1090, 1074, 1086>>

\* "Nezer i End"
CategoryNether ==
  <<1053, 1077, 1079, 1077, 1088, 32, 1080, 32, 1069, 1085, 1076>>

\* "Redkie trofei"
CategoryTrophies ==
  <<1056, 1077, 1076, 1082, 1080, 1077, 32, 1090, 1088, 1086, 1092, 1077,
    1080>>

\* "Stroitelnye bloki"
CategoryBuilding ==
  <<1057, 1090, 1088, 1086, 1080, 1090, 1077, 1083, 1100, 1085, 1099, 1077,
    32, 1073, 1083, 1086, 1082, 1080>>

\* "Bloki i predmety"
CategoryOther ==
  <<1041, 1083, 1086, 1082, 1080, 32, 1080, 32, 1087, 1088, 1077, 1076,
    1084, 1077, 1090, 1099>>

\* "Kastomnye predmety"
CategoryCustom ==
  <<1050, 1072, 1089, 1090, 1086, 1084, 1085, 1099, 1077, 32, 1087, 1088,
    1077, 1076, 1084, 1077, 1090, 1099>>

\* "Zacharovannye knigi"
CategoryBooks ==
  <<1047, 1072, 1095, 1072, 1088, 1086, 1074, 1072, 1085, 1085, 1099, 1077,
    32, 1082, 1085, 1080, 1075, 1080>>
---------------------------------------------------------------------------
(* Table lookups *)

\* dict lookup in a table of tuples keyed by their first component: the
\* index of the entry, 0 when the key is absent.
Find(table, key) ==
  LET S == {i \in DOMAIN table : table[i][1] = key}
  IN  IF S = {} THEN 0 ELSE CHOOSE i \in S : TRUE

None == <<>>

Some(v) == <<v>>

---------------------------------------------------------------------------
(* Pure functions *)

contains_token(name, tokens) == \E token \in tokens : substring_in(token, name)

\* is_survival_obtainable without its suffix test.
is_survival_obtainable_no_suffix(name) ==
  IF name \in EXCLUDE_EXACT THEN FALSE
  ELSE IF \E p \in EXCLUDE_PREFIX : startswith(name, p) THEN FALSE
  ELSE TRUE

is_survival_obtainable(name) ==
  IF name \in EXCLUDE_EXACT THEN FALSE
  ELSE IF \E p \in EXCLUDE_PREFIX : startswith(name, p) THEN FALSE
  ELSE IF \E s \in EXCLUDE_SUFFIX : endswith(name, s) THEN FALSE
  ELSE TRUE

classify(name) ==
  IF contains_token(name, {<<"o","r","e">>, <<"i","n","g","o","t">>, <<"g","e","m">>,
                           <<"d","i","a","m","o","n","d">>, <<"e","m","e","r","a","l","d">>, <<"n","e","t","h","e","r","i","t","e">>})
  THEN CategoryOres
  ELSE IF contains_token(name, KEYWORD_SETS_redstone) THEN CategoryRedstone
  ELSE IF contains_token(name, KEYWORD_SETS_combat) \/ contains_token(name, KEYWORD_SETS_tool)
       THEN CategoryCombat
  ELSE IF contains_token(name, KEYWORD_SETS_food) THEN CategoryFood
  ELSE IF contains_token(name, {<<"b","l","a","z","e">>, <<"g","h","a","s","t">>, <<"e","n","d","e","r">>,
                                <<"c","h","o","r","u","s">>, <<"n","e","t","h","e","r">>, <<"w","i","t","h","e","r">>})
       THEN CategoryNether
  ELSE IF contains_token(name, {<<"h","e","a","d">>, <<"s","h","e","l","l">>, <<"t","o","t","e","m">>,
                                <<"s","t","a","r">>, <<"e","l","y","t","r","a">>, <<"d","i","s","c">>})
       THEN CategoryTrophies
  ELSE IF contains_token(name, {<<"s","t","a","i","r","s">>, <<"s","l","a","b">>, <<"f","e","n","c","e">>, <<"w","a","l","l">>,
                                <<"d","o","o","r">>, <<"t","r","a","p","d","o","o","r">>, <<"p","l","a","n","k","s">>,
                                <<"b","r","i","c","k">>, <<"g","l","a","s","s">>, <<"t","e","r","r","a","c","o","t","t","a">>,
                                <<"c","o","n","c","r","e","t","e">>, <<"c","a","r","p","e","t">>, <<"b","a","n","n","e","r">>})
       THEN CategoryBuilding
  ELSE CategoryOther

\* item_name.replace("_", " ").title(): a letter is upper-cased when the
\* character before it is not a letter, and lower-cased otherwise.
fallback_display_name(item_name) ==
  LET spaced == [i \in 1..Len(item_name) |->
                   IF item_name[i] = "_" THEN 32 ELSE ord(item_name[i])]
      is_upper(c) == 65 <= c /\ c <= 90
      is_lower(c) == 97 <= c /\ c <= 122
      cased(c) == is_upper(c) \/ is_lower(c)
  IN  [i \in 1..Len(spaced) |->
         LET c == spaced[i]
         IN  IF i > 1 /\ cased(spaced[i - 1])
             THEN IF is_upper(c) THEN c + 32 ELSE c
             ELSE IF is_lower(c) THEN c - 32 ELSE c]

\* ru_lang is a sequence of <<key, text>> entries with distinct keys.
pick_ru_name(item_name, en_display_name, ru_lang) ==
  LET item_key == <<"i","t","e","m",".","m","i","n","e","c","r","a","f","t",".">> \o item_name
      block_key == <<"b","l","o","c","k",".","m","i","n","e","c","r","a","f","t",".">> \o item_name
  IN  IF Find(ru_lang, item_key) # 0 THEN ru_lang[Find(ru_lang, item_key)][2]
      ELSE IF Find(ru_lang, block_key) # 0 THEN ru_lang[Find(ru_lang, block_key)][2]
      ELSE IF en_display_name # <<>> THEN en_display_name
      ELSE fallback_display_name(item_name)

\* item.get("stackSize", 64)
stack_size_of(item) == IF item.stackSize = None THEN 64 ELSE item.stackSize[1]

Factor(cond, f, price) == IF cond THEN RMul(price, f) ELSE price

infer_price_float(name, stack_size) ==
  LET o == Find(FLOAT_OVERRIDES, name)
      has(t) == substring_in(t, name)
      p0 == IF stack_size >= 64 THEN <<3, 100>>
            ELSE IF stack_size = 16 THEN <<8, 100>>
            ELSE <<13, 10>>
      p1 == Factor(contains_token(name, KEYWORD_SETS_farmable), <<65, 100>>, p0)
      p2 == Factor(contains_token(name, KEYWORD_SETS_redstone), <<135, 100>>, p1)
      p3 == Factor(contains_token(name, KEYWORD_SETS_food), <<95, 100>>, p2)
      p4 == Factor(contains_token(name, KEYWORD_SETS_rare), <<35, 10>>, p3)
      p5 == Factor(has(<<"o","r","e">>), <<16, 10>>, p4)
      p6 == Factor(has(<<"d","e","e","p","s","l","a","t","e","_">>), <<112, 100>>, p5)
      p7 == Factor(has(<<"w","a","x","e","d","_">>)
                      \/ has(<<"o","x","i","d","i","z","e","d","_">>), <<12, 10>>, p6)
      p8 == Factor(has(<<"s","t","a","i","r","s">>) \/ has(<<"f","e","n","c","e">>)
                      \/ has(<<"t","r","a","p","d","o","o","r">>), <<115, 100>>, p7)
      p9 == Factor(has(<<"s","l","a","b">>), <<9, 10>>, p8)
      p10 == Factor(has(<<"w","a","l","l">>), <<108, 100>>, p9)
      p11 == Factor(has(<<"c","o","n","c","r","e","t","e","_","p","o","w","d","e","r">>),
                    <<95, 100>>, p10)
      p12 == Factor(has(<<"s","m","i","t","h","i","n","g","_","t","e","m","p","l","a","t","e">>),
                    <<8, 1>>, p11)
      p13 == Factor(has(<<"b","a","n","n","e","r","_","p","a","t","t","e","r","n">>)
                      \/ has(<<"p","o","t","t","e","r","y","_","s","h","e","r","d">>)
                      \/ has(<<"m","u","s","i","c","_","d","i","s","c">>), <<42, 10>>, p12)
      p14 == Factor(has(<<"p","o","t","i","o","n">>)
                      \/ has(<<"l","i","n","g","e","r","i","n","g","_","p","o","t","i","o","n">>)
                      \/ has(<<"s","p","l","a","s","h","_","p","o","t","i","o","n">>),
                    <<24, 10>>, p13)
      p15 == IF has(<<"w","o","o","d","e","n","_">>) THEN RMul(p14, <<6, 10>>)
             ELSE IF has(<<"s","t","o","n","e","_">>) THEN RMul(p14, <<75, 100>>)
             ELSE IF has(<<"i","r","o","n","_">>) THEN RMul(p14, <<8, 10>>)
             ELSE IF has(<<"g","o","l","d","e","n","_">>) THEN RMul(p14, <<12, 10>>)
             ELSE IF has(<<"d","i","a","m","o","n","d","_">>) THEN RMul(p14, <<28, 10>>)
             ELSE IF has(<<"n","e","t","h","e","r","i","t","e","_">>) THEN RMul(p14, <<4, 1>>)
             ELSE IF has(<<"c","h","a","i","n","m","a","i","l","_">>) THEN RMul(p14, <<18, 10>>)
             ELSE p14
      p16 == Factor(name \in LIMITED_ITEMS, <<18, 10>>, p15)
      min_price == IF stack_size >= 64 THEN <<5, 1000>>
                   ELSE IF stack_size = 16 THEN <<2, 100>>
                   ELSE <<8, 10>>
      max_price == <<1200, 1>>
  IN  IF o # 0 THEN FLOAT_OVERRIDES[o][2]
      ELSE RMin(RMax(p16, min_price), max_price)

is_wood_bulk(name) ==
  \/ endswith(name, <<"_","l","o","g">>)
  \/ endswith(name, <<"_","s","t","e","m">>)
  \/ endswith(name, <<"_","w","o","o","d">>)
  \/ endswith(name, <<"_","h","y","p","h","a","e">>)
  \/ endswith(name, <<"_","p","l","a","n","k","s">>)

should_sell_per_item(name, stack_size) ==
  IF stack_size <= 1 THEN TRUE ELSE contains_token(name, PER_ITEM_TOKENS)

\* The two fixed labels, "sht" and "stak" in Cyrillic, and f"{n} sht".
LabelSht == <<1096, 1090>>

LabelStak == <<1089, 1090, 1072, 1082>>

LabelCount(n) == text(str_int(n)) \o <<32>> \o LabelSht

\* trade_count_and_label testing the wood forms before the stack size.
trade_count_and_label_wood_first(name, stack_size) ==
  IF is_wood_bulk(name) \/ name = <<"b","a","m","b","o","o","_","b","l","o","c","k">>
  THEN <<64, LabelStak>>
  ELSE IF should_sell_per_item(name, stack_size) THEN <<1, LabelSht>>
  ELSE IF stack_size >= 64 THEN <<64, LabelStak>>
  ELSE <<stack_size, LabelCount(stack_size)>>

trade_count_and_label(name, stack_size) ==
  IF stack_size <= 1 THEN <<1, LabelSht>>
  ELSE IF is_wood_bulk(name) \/ name = <<"b","a","m","b","o","o","_","b","l","o","c","k">>
       THEN <<64, LabelStak>>
  ELSE IF should_sell_per_item(name, stack_size) THEN <<1, LabelSht>>
  ELSE IF stack_size >= 64 THEN <<64, LabelStak>>
  ELSE <<stack_size, LabelCount(stack_size)>>

\* round_price truncating instead of rounding half up.
round_price_trunc(value) == IntMax(1, RFloor(value))

\* round_price without its floor of 1.
round_price_nofloor(value) == RFloor(RAdd(value, <<1, 2>>))

\* max(1, int(value + 0.5))
round_price(value) == IntMax(1, RFloor(RAdd(value, <<1, 2>>)))

\* ceil_price truncating instead of taking the ceiling.
ceil_price_trunc(value) == IntMax(1, RFloor(value))

\* max(1, int(math.ceil(value - 1e-9))).  Every value the passes hand to
\* ceil_price is a multiple of 1/(10 * trade_count), so its distance to the
\* integer below it is 0 or far above 1e-9: the slack only cancels the
\* rounding error of the float product and the result is the exact ceiling.
ceil_price(value) == IntMax(1, RCeil(value))

enchanted_book_price(level, tier, treasure) ==
  LET level_factor == RAdd(<<25, 10>>, RMul(RInt(level), <<15, 10>>))
      tier_factor == RAdd(<<1, 1>>, RMul(RInt(IntMax(1, tier) - 1), <<22, 100>>))
      treasure_factor == IF treasure THEN <<125, 100>> ELSE <<1, 1>>
  IN  round_price(RMul(RMul(level_factor, tier_factor), treasure_factor))

\* infer_integer_offer unpacking an override as (price_ars, trade_count).
infer_integer_offer_swapped(item) ==
  LET name == item.name
      o == Find(INTEGER_OVERRIDES, name)
      stack_size == stack_size_of(item)
      tl == trade_count_and_label(name, stack_size)
      unit_estimate == RMul(infer_price_float(name, stack_size), RInt(tl[1]))
  IN  IF o # 0
      THEN LET trade_count == INTEGER_OVERRIDES[o][3]
               label == IF trade_count = 64 THEN LabelStak
                        ELSE IF trade_count = 1 THEN LabelSht
                        ELSE LabelCount(trade_count)
           IN  <<trade_count, label, INTEGER_OVERRIDES[o][2]>>
      ELSE <<tl[1], tl[2], round_price(unit_estimate)>>

\* <<trade_count, trade_label, price_ars>>
infer_integer_offer(item) ==
  LET name == item.name
      o == Find(INTEGER_OVERRIDES, name)
      stack_size == stack_size_of(item)
      tl == trade_count_and_label(name, stack_size)
      unit_estimate == RMul(infer_price_float(name, stack_size), RInt(tl[1]))
  IN  IF o # 0
      THEN LET trade_count == INTEGER_OVERRIDES[o][2]
               label == IF trade_count = 64 THEN LabelStak
                        ELSE IF trade_count = 1 THEN LabelSht
                        ELSE LabelCount(trade_count)
           IN  <<trade_count, label, INTEGER_OVERRIDES[o][3]>>
      ELSE <<tl[1], tl[2], round_price(unit_estimate)>>

---------------------------------------------------------------------------
(* Synthetic rows *)

\* "neopredelenno" in Cyrillic.
NoteUndefined ==
  <<1085, 1077, 1086, 1087, 1088, 1077, 1076, 1077, 1083, 1077, 1085, 1085, 1086>>

CustomRow(id, key, name_ru) ==
  [id |-> id, key |-> key, name_ru |-> name_ru, category |-> CategoryCustom,
   stack_size |-> 1, trade_count |-> 1, trade_label |-> LabelSht,
   price_ars |-> None, price_note |-> Some(NoteUndefined)]

CUSTOM_ITEMS ==
  <<
    \* "Alkogolnye napitki"
    CustomRow(200001, <<"a","l","c","o","h","o","l","i","c","_","d","r","i","n","k","s">>,
              <<1040, 1083, 1082, 1086, 1075, 1086, 1083, 1100, 1085, 1099,
                1077, 32, 1085, 1072, 1087, 1080, 1090, 1082, 1080>>),
    \* "Sigarety"
    CustomRow(200002, <<"c","i","g","a","r","e","t","t","e","s">>,
              <<1057, 1080, 1075, 1072, 1088, 1077, 1090, 1099>>),
    \* "Kleshnya kraba"
    CustomRow(200003, <<"c","r","a","b","_","c","l","a","w">>,
              <<1050, 1083, 1077, 1096, 1085, 1103, 32, 1082, 1088, 1072,
                1073, 1072>>)
  >>

\* ROMAN_LEVELS.get(level, str(level))
ROMAN_LEVELS == <<<<73>>, <<73, 73>>, <<73, 73, 73>>, <<73, 86>>, <<86>>>>

roman_level(level) ==
  IF level \in DOMAIN ROMAN_LEVELS THEN ROMAN_LEVELS[level] ELSE text(str_int(level))

\* "Zacharovannaya kniga: " in Cyrillic.
BookNamePrefix ==
  <<1047, 1072, 1095, 1072, 1088, 1086, 1074, 1072, 1085, 1085, 1072, 1103,
    32, 1082, 1085, 1080, 1075, 1072, 58, 32>>

BookStartId == 210000

\* BookRowsOf adding 1 to next_id before the row is appended, not after.
BookRowsOf_early(enchant, next_id) ==
  [level \in 1..enchant.max_level |->
     [id |-> next_id + level,
      key |-> <<"e","n","c","h","a","n","t","e","d","_","b","o","o","k","_">>
                \o enchant.key \o <<"_">> \o str_int(level),
      name_ru |-> BookNamePrefix \o enchant.name_ru \o <<32>> \o roman_level(level),
      category |-> CategoryBooks,
      stack_size |-> 1, trade_count |-> 1, trade_label |-> LabelSht,
      price_ars |-> Some(enchanted_book_price(level, enchant.tier, enchant.treasure)),
      price_note |-> None]]

\* The rows of one enchantment, levels 1..max_level, ids from next_id on.
BookRowsOf(enchant, next_id) ==
  [level \in 1..enchant.max_level |->
     [id |-> next_id + level - 1,
      key |-> <<"e","n","c","h","a","n","t","e","d","_","b","o","o","k","_">>
                \o enchant.key \o <<"_">> \o str_int(level),
      name_ru |-> BookNamePrefix \o enchant.name_ru \o <<32>> \o roman_level(level),
      category |-> CategoryBooks,
      stack_size |-> 1, trade_count |-> 1, trade_label |-> LabelSht,
      price_ars |-> Some(enchanted_book_price(level, enchant.tier, enchant.treasure)),
      price_note |-> None]]

RECURSIVE BookRowsFrom(_, _)
BookRowsFrom(i, next_id) ==
  IF i > Len(ENCHANTED_BOOK_VARIANTS) THEN <<>>
  ELSE BookRowsOf(ENCHANTED_BOOK_VARIANTS[i], next_id)
         \o BookRowsFrom(i + 1, next_id + ENCHANTED_BOOK_VARIANTS[i].max_level)

build_enchanted_book_items(start_id) == BookRowsFrom(1, start_id)

\* main calls build_enchanted_book_items() with its default start_id.
BOOK_ITEMS == build_enchanted_book_items(BookStartId)

---------------------------------------------------------------------------
(* The passes over the working set *)

\* by_key.get(key): the index of the row, 0 for None.  The dict is built by
\* a comprehension over the rows, so the last row of a key wins.
by_key(rows, key) ==
  LET S == {i \in DOMAIN rows : rows[i].key = key}
  IN  IF S = {} THEN 0 ELSE CHOOSE i \in S : \A j \in S : j <= i

unit_price(row) == <<row.price_ars[1], row.trade_count>>

\* ensure_total_at_least assigning the minimum instead of raising to it.
ensure_total_exactly(row, min_total) ==
  [row EXCEPT !.price_ars = Some(ceil_price(min_total))]

ensure_total_at_least(row, min_total) ==
  [row EXCEPT !.price_ars = Some(IntMax(row.price_ars[1], ceil_price(min_total)))]

\* compression_step taking the unit price of the block instead of the
\* resource.
compression_step_self(rows, rel) ==
  LET resource == by_key(rows, rel[1])
      block == by_key(rows, rel[2])
      target_total == RMul(RMul(unit_price(rows[block]), rel[3]),
                           RInt(rows[block].trade_count))
  IN  IF resource = 0 \/ block = 0 THEN rows
      ELSE [rows EXCEPT ![block].price_ars = Some(round_price(target_total))]

\* compression_step writing the resource from the block, not the block from
\* the resource.
compression_step_reverse(rows, rel) ==
  LET resource == by_key(rows, rel[1])
      block == by_key(rows, rel[2])
      target_total == RMul(RMul(unit_price(rows[block]), <<rel[3][2], rel[3][1]>>),
                           RInt(rows[resource].trade_count))
  IN  IF resource = 0 \/ block = 0 THEN rows
      ELSE [rows EXCEPT ![resource].price_ars = Some(round_price(target_total))]

\* compression_step taking a missing resource for a resource of price 0.
compression_step_default(rows, rel) ==
  LET resource == by_key(rows, rel[1])
      block == by_key(rows, rel[2])
  IN  IF block = 0 THEN rows
      ELSE IF resource = 0
           THEN [rows EXCEPT ![block].price_ars = Some(round_price(RInt(0)))]
      ELSE [rows EXCEPT ![block].price_ars =
              Some(round_price(RMul(RMul(unit_price(rows[resource]), rel[3]),
                                    RInt(rows[block].trade_count))))]

compression_step(rows, rel) ==
  LET resource == by_key(rows, rel[1])
      block == by_key(rows, rel[2])
      target_total == RMul(RMul(unit_price(rows[resource]), rel[3]),
                           RInt(rows[block].trade_count))
  IN  IF resource = 0 \/ block = 0 THEN rows
      ELSE [rows EXCEPT ![block].price_ars = Some(round_price(target_total))]

\* The rows after the first i iterations of the loop.
RECURSIVE compression_after(_, _)
compression_after(rows, i) ==
  IF i = 0 THEN rows
  ELSE compression_step(compression_after(rows, i - 1), COMPRESSION_RELATIONS[i])

compression_pass(rows) == compression_after(rows, Len(COMPRESSION_RELATIONS))

\* yield_step computing the price of the drop from the ore and assigning it.
yield_step_backward(rows, rel) ==
  LET ore == by_key(rows, rel[1])
      drop == by_key(rows, rel[2])
      total == RMul(RMul(unit_price(rows[ore]), rel[3]), RInt(rows[drop].trade_count))
  IN  IF ore = 0 \/ drop = 0 THEN rows
      ELSE [rows EXCEPT ![drop].price_ars = Some(ceil_price(total))]

yield_step(rows, rel) ==
  LET ore == by_key(rows, rel[1])
      drop == by_key(rows, rel[2])
      min_total == RMul(RMul(unit_price(rows[drop]), rel[3]), RInt(rows[ore].trade_count))
  IN  IF ore = 0 \/ drop = 0 THEN rows
      ELSE [rows EXCEPT ![ore] = ensure_total_at_least(rows[ore], min_total)]

\* The rows after the first i iterations of the loop.
RECURSIVE yield_after(_, _)
yield_after(rows, i) ==
  IF i = 0 THEN rows
  ELSE yield_step(yield_after(rows, i - 1), ORE_FORTUNE_RELATIONS[i])

yield_floor_pass(rows) == yield_after(rows, Len(ORE_FORTUNE_RELATIONS))

\* tier_step with the two rows of the link exchanged.
tier_step_swapped(rows, link) ==
  LET normal == by_key(rows, link[1])
      deep == by_key(rows, link[2])
  IN  IF normal = 0 \/ deep = 0 THEN rows
      ELSE [rows EXCEPT ![normal] =
              ensure_total_at_least(rows[normal], RInt(rows[deep].price_ars[1]))]

tier_step(rows, link) ==
  LET normal == by_key(rows, link[1])
      deep == by_key(rows, link[2])
  IN  IF normal = 0 \/ deep = 0 THEN rows
      ELSE [rows EXCEPT ![deep] =
              ensure_total_at_least(rows[deep], RInt(rows[normal].price_ars[1]))]

\* The rows after the first i iterations of the loop.
RECURSIVE tier_after(_, _)
tier_after(rows, i) ==
  IF i = 0 THEN rows
  ELSE tier_step(tier_after(rows, i - 1), DEEPSLATE_PRICE_LINKS[i])

tier_floor_pass(rows) == tier_after(rows, Len(DEEPSLATE_PRICE_LINKS))

\* antidumping_step assigning the minimum instead of raising to it.
antidumping_step_assign(rows, entry) ==
  LET row == by_key(rows, entry[1])
      trade_count == entry[2]
      label == IF trade_count = 1 THEN LabelSht
               ELSE IF trade_count = 64 THEN LabelStak
               ELSE LabelCount(trade_count)
  IN  IF row = 0 THEN rows
      ELSE IF rows[row].price_ars = None THEN rows
      ELSE [rows EXCEPT ![row].trade_count = trade_count,
                        ![row].trade_label = label,
                        ![row].price_ars = Some(entry[3])]

antidumping_step(rows, entry) ==
  LET row == by_key(rows, entry[1])
      trade_count == entry[2]
      label == IF trade_count = 1 THEN LabelSht
               ELSE IF trade_count = 64 THEN LabelStak
               ELSE LabelCount(trade_count)
  IN  IF row = 0 THEN rows
      ELSE IF rows[row].price_ars = None THEN rows
      ELSE [rows EXCEPT ![row].trade_count = trade_count,
                        ![row].trade_label = label,
                        ![row].price_ars = Some(IntMax(rows[row].price_ars[1], entry[3]))]

\* The rows after the first i iterations of the loop.
RECURSIVE antidumping_after(_, _)
antidumping_after(rows, i) ==
  IF i = 0 THEN rows
  ELSE antidumping_step(antidumping_after(rows, i - 1), ANTI_DUMP_MINIMUMS[i])

enforce_antidumping(rows) == antidumping_after(rows, Len(ANTI_DUMP_MINIMUMS))

\* undefined_step without its last assignment: no price_note is set.
undefined_step_no_note(rows, key) ==
  LET row == by_key(rows, key)
  IN  IF row = 0 THEN rows
      ELSE [rows EXCEPT ![row] = [@ EXCEPT !.trade_count = 1, !.trade_label = LabelSht,
                                           !.price_ars = None]]

\* One iteration of the loop of apply_undefined_prices: the row of the key,
\* when there is one, is marked.
undefined_step(rows, key) ==
  LET row == by_key(rows, key)
  IN  IF row = 0 THEN rows
      ELSE [rows EXCEPT ![row] = [@ EXCEPT !.trade_count = 1, !.trade_label = LabelSht,
                                           !.price_ars = None,
                                           !.price_note = Some(NoteUndefined)]]

\* The rows after the first i keys of the order.
RECURSIVE undefined_after(_, _, _)
undefined_after(rows, order, i) ==
  IF i = 0 THEN rows
  ELSE undefined_step(undefined_after(rows, order, i - 1), order[i])

\* Not the code: the loop ends after the first key it meets.
apply_undefined_prices_first(rows, order) == undefined_step(rows, order[1])

\* UNDEFINED_PRICE_KEYS is a set of strings: the order in which the loop
\* meets its keys changes with the hash seed of the interpreter, so it is an
\* input of the call.
apply_undefined_prices(rows, order) == undefined_after(rows, order, Len(order))

\* The orders in which a run can iterate UNDEFINED_PRICE_KEYS.
UNDEFINED_PRICE_ORDERS ==
  {order \in [1..Cardinality(UNDEFINED_PRICE_KEYS) -> UNDEFINED_PRICE_KEYS] :
     \A key \in UNDEFINED_PRICE_KEYS : \E i \in DOMAIN order : order[i] = key}

\* The merge loop without its test of existing_keys: every item is appended.
merge_always(rows, keys, items) ==
  <<rows \o items, keys \cup {items[i].key : i \in DOMAIN items}>>

\* The merge loops of main, lines 1153-1166: a synthetic row is appended
\* unless its key is already in existing_keys, which then gains the key.  So
\* items[i] is appended iff its key is not in keys and no earlier item has it.
\* <<rows, keys>> after the loop.
merge(rows, keys, items) ==
  LET ks == [i \in 1..Len(items) |-> items[i].key]
      all == {ks[i] : i \in 1..Len(items)}
      distinct == Cardinality(all) = Len(items)
      appended(i) == /\ ks[i] \notin keys
                     /\ distinct \/ \A j \in 1..(i - 1) : ks[j] # ks[i]
      idx == SelectSeq([i \in 1..Len(items) |-> i], appended)
  IN  <<rows \o [k \in 1..Len(idx) |-> items[idx[k]]], keys \cup all>>

---------------------------------------------------------------------------
(* The sort of the rows *)

name_less(r, s) == str_less(r.name_ru, s.name_ru)

\* How many rows of the sorted list S go before x in S[lo..hi] and to its
\* left: the rows smaller than x and, when ties is TRUE, the rows equal to x.
RECURSIVE count_before(_, _, _, _, _)
count_before(S, x, ties, lo, hi) ==
  IF lo > hi THEN lo - 1
  ELSE LET mid == (lo + hi) \div 2
           before == IF ties THEN ~name_less(x, S[mid]) ELSE name_less(S[mid], x)
       IN  IF before THEN count_before(S, x, ties, mid + 1, hi)
           ELSE count_before(S, x, ties, lo, mid - 1)

\* The rows of A at the places posA and the rows of B at the places posB.
interleave(A, B, posA, posB) ==
  [k \in 1..(Len(A) + Len(B)) |->
     IF \E i \in DOMAIN A : posA[i] = k THEN A[CHOOSE i \in DOMAIN A : posA[i] = k]
     ELSE B[CHOOSE j \in DOMAIN B : posB[j] = k]]

\* The merge of two sorted runs; of two equal rows the one of A comes first.
merge_sorted(A, B) ==
  interleave(A, B,
             [i \in DOMAIN A |-> i + count_before(B, A[i], FALSE, 1, Len(B))],
             [j \in DOMAIN B |-> j + count_before(A, B[j], TRUE, 1, Len(A))])

\* A stable sort by name_ru, as list.sort is: a merge sort in which rows
\* with equal names keep their order.
RECURSIVE stable_sort(_)
stable_sort(rows) ==
  IF Len(rows) <= 1 THEN rows
  ELSE merge_sorted(stable_sort(SubSeq(rows, 1, Len(rows) \div 2)),
                    stable_sort(SubSeq(rows, Len(rows) \div 2 + 1, Len(rows))))

\* The enchanted-book rows sorted by name_ru, computed once.
BOOK_ITEMS_BY_NAME == stable_sort(BOOK_ITEMS)

\* The rows of kept in the order of the sorted book rows.
book_rows_by_name(kept) == SelectSeq(BOOK_ITEMS_BY_NAME, LAMBDA r : r \in kept)

\* rows is the book rows but for those the merge dropped.
is_book_rows(rows, kept) == rows = SelectSeq(BOOK_ITEMS, LAMBDA r : r \in kept)

\* Not the code: the sort key is the category alone, so the rows of a
\* category keep the order in which they were appended.
sort_category_unsorted(rows) == rows

\* The rows of one category sorted by name_ru.  A stable sort keeps the
\* relative order of the rows it is given, so the sort of the book rows the
\* merge kept is the sorted book rows without the dropped ones.
sort_category(rows) ==
  IF rows = BOOK_ITEMS THEN BOOK_ITEMS_BY_NAME
  ELSE IF Len(rows) > 0 /\ rows[1].category = CategoryBooks
          /\ is_book_rows(rows, {rows[i] : i \in DOMAIN rows})
       THEN book_rows_by_name({rows[i] : i \in DOMAIN rows})
  ELSE stable_sort(rows)

\* The categories of the rows in ascending order.
categories_of(cats) ==
  [k \in 1..Cardinality(cats) |->
     CHOOSE c \in cats : Cardinality({d \in cats : str_less(d, c)}) = k - 1]

RECURSIVE sort_from(_, _, _)
sort_from(rows, cats, k) ==
  IF k > Len(cats) THEN <<>>
  ELSE sort_category(SelectSeq(rows, LAMBDA r : r.category = cats[k]))
         \o sort_from(rows, cats, k + 1)

\* out_items.sort(key=lambda row: (row["category"], row["name_ru"])): the
\* tuples compare by category first, so the sorted list is, category by
\* category in ascending order, the rows of the category sorted by name_ru.
sort(rows) ==
  sort_from(rows, categories_of({rows[i].category : i \in DOMAIN rows}), 1)

---------------------------------------------------------------------------
(* The catalog: the input of a run *)

\* The names a catalog of the model can hold; the id of a record is the
\* position of its name here.
NAMES ==
  <<
    <<"e","m","e","r","a","l","d">>,
    <<"e","m","e","r","a","l","d","_","b","l","o","c","k">>,
    <<"e","m","e","r","a","l","d","_","o","r","e">>,
    <<"d","e","e","p","s","l","a","t","e","_","e","m","e","r","a","l","d","_","o","r","e">>,
    <<"g","h","a","s","t","_","t","e","a","r">>,
    <<"o","a","k","_","l","o","g">>,
    <<"b","a","r","r","i","e","r">>,
    <<"c","o","a","l">>,
    <<"c","o","a","l","_","b","l","o","c","k">>,
    <<"n","e","t","h","e","r","i","t","e","_","i","n","g","o","t">>,
    <<"n","e","t","h","e","r","i","t","e","_","b","l","o","c","k">>,
    <<"e","l","y","t","r","a">>,
    <<"i","n","f","e","s","t","e","d","_","s","t","o","n","e">>,
    <<"p","i","g","_","s","p","a","w","n","_","e","g","g">>,
    <<"f","l","o","w","e","r","_","b","a","n","n","e","r","_","p","a","t","t","e","r","n">>,
    <<"c","r","e","e","p","e","r","_","b","a","n","n","e","r","_","p","a","t","t","e","r","n">>,
    <<"c","r","a","b","_","c","l","a","w">>,
    <<"e","n","c","h","a","n","t","e","d","_","b","o","o","k","_","m","e","n","d","i","n","g","_","1">>,
    <<"e","n","d","_","c","r","y","s","t","a","l">>
  >>

\* displayName of the record of each name; the empty text where the record
\* has none.
DISPLAY_NAMES ==
  <<
    \* "Emerald", "Block of Emerald", "Emerald Ore", none
    <<69, 109, 101, 114, 97, 108, 100>>,
    <<66, 108, 111, 99, 107, 32, 111, 102, 32, 69, 109, 101, 114, 97, 108, 100>>,
    <<69, 109, 101, 114, 97, 108, 100, 32, 79, 114, 101>>,
    <<>>,
    \* "Ghast Tear", "Oak Log", "Barrier"
    <<71, 104, 97, 115, 116, 32, 84, 101, 97, 114>>,
    <<79, 97, 107, 32, 76, 111, 103>>,
    <<66, 97, 114, 114, 105, 101, 114>>,
    \* "Coal", none, "Netherite Ingot", "Block of Netherite"
    <<67, 111, 97, 108>>,
    <<>>,
    <<78, 101, 116, 104, 101, 114, 105, 116, 101, 32, 73, 110, 103, 111, 116>>,
    <<66, 108, 111, 99, 107, 32, 111, 102, 32, 78, 101, 116, 104, 101, 114, 105, 116, 101>>,
    \* none, "Infested Stone", "Pig Spawn Egg"
    <<>>,
    <<73, 110, 102, 101, 115, 116, 101, 100, 32, 83, 116, 111, 110, 101>>,
    <<80, 105, 103, 32, 83, 112, 97, 119, 110, 32, 69, 103, 103>>,
    \* "Banner Pattern", "Banner Pattern", "Crab Claw", none, "End Crystal"
    <<66, 97, 110, 110, 101, 114, 32, 80, 97, 116, 116, 101, 114, 110>>,
    <<66, 97, 110, 110, 101, 114, 32, 80, 97, 116, 116, 101, 114, 110>>,
    <<67, 114, 97, 98, 32, 67, 108, 97, 119>>,
    <<>>,
    <<69, 110, 100, 32, 67, 114, 121, 115, 116, 97, 108>>
  >>

\* A localization map: the Russian names of the emerald, its block and its
\* ore, of the oak log (a block) and of the ghast tear (an item).
RU_RU ==
  <<
    \* "Izumrud"
    <<<<"i","t","e","m",".","m","i","n","e","c","r","a","f","t",".","e","m","e","r","a","l","d">>,
      <<1048, 1079, 1091, 1084, 1088, 1091, 1076>>>>,
    \* "Izumrudnyy blok"
    <<<<"b","l","o","c","k",".","m","i","n","e","c","r","a","f","t",".","e","m","e","r","a","l","d","_","b","l","o","c","k">>,
      <<1048, 1079, 1091, 1084, 1088, 1091, 1076, 1085, 1099, 1081, 32, 1073, 1083, 1086, 1082>>>>,
    \* "Izumrudnaya ruda"
    <<<<"b","l","o","c","k",".","m","i","n","e","c","r","a","f","t",".","e","m","e","r","a","l","d","_","o","r","e">>,
      <<1048, 1079, 1091, 1084, 1088, 1091, 1076, 1085, 1072, 1103, 32, 1088, 1091, 1076, 1072>>>>,
    \* "Dubovoe brevno"
    <<<<"b","l","o","c","k",".","m","i","n","e","c","r","a","f","t",".","o","a","k","_","l","o","g">>,
      <<1044, 1091, 1073, 1086, 1074, 1086, 1077, 32, 1073, 1088, 1077, 1074, 1085, 1086>>>>,
    \* "Sleza gasta"
    <<<<"i","t","e","m",".","m","i","n","e","c","r","a","f","t",".","g","h","a","s","t","_","t","e","a","r">>,
      <<1057, 1083, 1077, 1079, 1072, 32, 1075, 1072, 1089, 1090, 1072>>>>
  >>

\* The id of the record that has no name: a malformed record of the catalog.
NamelessId == Len(NAMES) + 1

\* A catalog draws its records from one of three snapshots: the emerald chain
\* with overridden, undefined and excluded keys; the coal and netherite
\* pairs with a dump-floor key and excluded keys; or two banner patterns of
\* one displayName, a key of CUSTOM_ITEMS, the key of an enchanted-book row,
\* two undefined keys and the record without a name.  No relation of the
\* configuration joins a key of one snapshot to a key of another.  The first
\* comes with a localization map, the others with an empty one.
SNAPSHOTS ==
  {[ids |-> 1..7, ru_lang |-> RU_RU, stack_sizes |-> {None, Some(1), Some(16)}],
   [ids |-> 8..14, ru_lang |-> <<>>, stack_sizes |-> {None, Some(1), Some(16)}],
   [ids |-> {5} \cup (15..NamelessId), ru_lang |-> <<>>, stack_sizes |-> {None, Some(16)}]}

\* stackSize of a catalog record: missing, 1 or 16.
STACK_SIZES == {None, Some(1), Some(16)}

MaxItems == 3

RECURSIVE CatalogOf(_, _, _)
CatalogOf(P, f, i) ==
  IF i > NamelessId THEN <<>>
  ELSE IF i \notin P THEN CatalogOf(P, f, i + 1)
  ELSE IF i = NamelessId
       THEN <<[id |-> i, displayName |-> <<>>, stackSize |-> f[i]]>>
              \o CatalogOf(P, f, i + 1)
  ELSE <<[id |-> i, name |-> NAMES[i], displayName |-> DISPLAY_NAMES[i],
          stackSize |-> f[i]]>> \o CatalogOf(P, f, i + 1)

---------------------------------------------------------------------------
(* The run of main() *)

\* catalog    the items fetched from ITEMS_URL, the input of the run
\* ru_lang    the localization map load_ru_lang returned, an input too
\* out_items  the working set of rows
\* built      out_items as the build loop left it (history)
\* prev       out_items before the pass that ran last (history)
\* written    whether this run has written the artifact
\* artifact   the content of OUTPUT_PATH: nothing, or the payload written last
\* pc         the next step of main
\* call       the arguments of a call of a function on its own
\* result     what that call returned
VARIABLES catalog, ru_lang, out_items, built, prev, written, artifact, pc, call, result

vars == <<catalog, ru_lang, out_items, built, prev, written, artifact, pc, call, result>>

\* A run starts with a catalog and a localization map of one of the
\* snapshots S, an empty working set and no artifact.
InitFrom(S) ==
  /\ \E G \in S :
       /\ ru_lang = G.ru_lang
       /\ \E P \in {Q \in SUBSET G.ids : Cardinality(Q) <= MaxItems} :
            \E f \in [P -> G.stack_sizes] : catalog = CatalogOf(P, f, 1)
  /\ out_items = <<>>
  /\ built = <<>>
  /\ prev = <<>>
  /\ written = FALSE
  /\ artifact = None
  /\ pc = "build"
  /\ call = None
  /\ result = None

Init == InitFrom(SNAPSHOTS)

\* infer_integer_offer for every record a catalog can hold, computed once.
OFFERS ==
  [i \in 1..Len(NAMES) |->
     [s \in STACK_SIZES |-> infer_integer_offer([id |-> i, name |-> NAMES[i],
                                                displayName |-> DISPLAY_NAMES[i],
                                                stackSize |-> s])]]

BuildRow(item, lang) ==
  LET offer == OFFERS[item.id][item.stackSize]
  IN  [id |-> item.id, key |-> item.name,
       name_ru |-> pick_ru_name(item.name, item.displayName, lang),
       category |-> classify(item.name), stack_size |-> stack_size_of(item),
       trade_count |-> offer[1], trade_label |-> offer[2],
       price_ars |-> Some(offer[3]), price_note |-> None]

\* item["name"], line 1126, raises KeyError for a record without a name.
has_name(item) == "name" \in DOMAIN item

\* The rows the loop has appended when it ends: at the end of the catalog or
\* at the first record that raises.
RECURSIVE build_from(_, _, _)
build_from(items, lang, i) ==
  IF i > Len(items) THEN <<>>
  ELSE IF ~has_name(items[i]) THEN <<>>
  ELSE IF ~is_survival_obtainable(items[i].name) THEN build_from(items, lang, i + 1)
  ELSE <<BuildRow(items[i], lang)>> \o build_from(items, lang, i + 1)

\* main, lines 1122-1147: both fetches return and the loop builds out_items.
Build ==
  /\ pc = "build"
  /\ \A i \in DOMAIN catalog : has_name(catalog[i])
  /\ out_items' = build_from(catalog, ru_lang, 1)
  /\ built' = out_items'
  /\ prev' = out_items
  /\ pc' = "compression"
  /\ UNCHANGED <<catalog, ru_lang, written, artifact, call, result>>

\* What datetime.now can give, to the second, when a run writes.
TIMES == {"2026-01-01T00:00:00+00:00", "2026-01-01T00:00:01+00:00"}

\* main, lines 1170-1180: the fields of the payload that change from run to
\* run; the others are constants of the script.
payload(rows, now) == [generated_at |-> now, items_count |-> Len(rows), items |-> rows]

\* Not the code: main writes the rows it has when an exception leaves it, as
\* a write in a finally clause would.
Raise_writing(rows) ==
  /\ pc = "build"
  /\ out_items' = rows
  /\ pc' = "failed"
  /\ written' = TRUE
  /\ \E now \in TIMES : artifact' = Some(payload(rows, now))
  /\ UNCHANGED <<catalog, ru_lang, built, prev, call, result>>

\* An exception leaves main: the run ends with the working set it had.
Raise(rows) ==
  /\ pc = "build"
  /\ out_items' = rows
  /\ pc' = "failed"
  /\ UNCHANGED <<catalog, ru_lang, built, prev, written, artifact, call, result>>

\* main, line 1122: urlopen or json.loads raises in fetch_json(ITEMS_URL).
FetchJsonFails == Raise(<<>>)

\* main, line 1123: a fetch of load_ru_lang raises, or the manifest has no
\* entry for VERSION.
LoadRuLangFails == Raise(<<>>)

\* main, line 1126: the loop reaches a record without a name.
BuildFails ==
  /\ \E i \in DOMAIN catalog : ~has_name(catalog[i])
  /\ Raise(build_from(catalog, ru_lang, 1))

\* A step of main that rewrites the working set in place.
Step(from, to, rows) ==
  /\ pc = from
  /\ out_items' = rows
  /\ prev' = out_items
  /\ pc' = to
  /\ UNCHANGED <<catalog, ru_lang, built, written, artifact, call, result>>

\* stabilize_economy, called at line 1149, runs its three loops in turn.
Compression == Step("compression", "yield_floor", compression_pass(out_items))

YieldFloor == Step("yield_floor", "tier_floor", yield_floor_pass(out_items))

TierFloor == Step("tier_floor", "antidumping", tier_floor_pass(out_items))

\* main, line 1150.
EnforceAntidumping == Step("antidumping", "undefined", enforce_antidumping(out_items))

\* main, line 1151.
ApplyUndefinedPrices ==
  \E order \in UNDEFINED_PRICE_ORDERS :
    Step("undefined", "merge", apply_undefined_prices(out_items, order))

\* main, lines 1153-1166: the custom items, then the enchanted books.
merge_synthetics(rows) ==
  LET existing_keys == {rows[i].key : i \in DOMAIN rows}
      custom == merge(rows, existing_keys, CUSTOM_ITEMS)
      books == merge(custom[1], custom[2], BOOK_ITEMS)
  IN  books[1]

MergeSynthetics == Step("merge", "sort", merge_synthetics(out_items))

\* main, line 1168.
Sort == Step("sort", "write", sort(out_items))

\* main, lines 1170-1186: the payload holds out_items itself and replaces
\* the content of OUTPUT_PATH.
Write ==
  /\ pc = "write"
  /\ \E now \in TIMES : artifact' = Some(payload(out_items, now))
  /\ written' = TRUE
  /\ pc' = "done"
  /\ UNCHANGED <<catalog, ru_lang, out_items, built, prev, call, result>>

Next ==
  \/ FetchJsonFails
  \/ LoadRuLangFails
  \/ BuildFails
  \/ Build
  \/ Compression
  \/ YieldFloor
  \/ TierFloor
  \/ EnforceAntidumping
  \/ ApplyUndefinedPrices
  \/ MergeSynthetics
  \/ Sort
  \/ Write

Spec == Init /\ [][Next]_vars

---------------------------------------------------------------------------
(* Runs of main() one after another *)

\* The script is started again over the same catalog and localization map:
\* a new process, whose working set is empty, and the file the last
\* successful run left.
Rerun ==
  /\ pc \in {"done", "failed"}
  /\ out_items' = <<>>
  /\ built' = <<>>
  /\ prev' = <<>>
  /\ written' = FALSE
  /\ pc' = "build"
  /\ UNCHANGED <<catalog, ru_lang, artifact, call, result>>

NextRerun ==
  \/ Next
  \/ Rerun

\* The runs over the catalogs of the snapshot that holds rows of one sort
\* key, two undefined keys and the record without a name.
InitRerun == InitFrom({G \in SNAPSHOTS : NamelessId \in G.ids})

SpecRerun == InitRerun /\ [][NextRerun]_vars

---------------------------------------------------------------------------
(* Calls of a function on its own *)

\* Names for a call of trade_count_and_label: the five bulk wood forms,
\* bamboo_block, names that hold a token of PER_ITEM_TOKENS, a name that is
\* a wood form and holds a token, and names that are neither.
CALL_NAMES ==
  {
    <<"o","a","k","_","l","o","g">>,
    <<"w","a","r","p","e","d","_","s","t","e","m">>,
    <<"s","t","r","i","p","p","e","d","_","o","a","k","_","w","o","o","d">>,
    <<"c","r","i","m","s","o","n","_","h","y","p","h","a","e">>,
    <<"b","i","r","c","h","_","p","l","a","n","k","s">>,
    <<"b","a","m","b","o","o","_","b","l","o","c","k">>,
    <<"b","a","m","b","o","o">>,
    <<"d","i","a","m","o","n","d">>,
    <<"m","u","s","i","c","_","d","i","s","c","_","c","a","t">>,
    <<"d","i","a","m","o","n","d","_","p","l","a","n","k","s">>,
    <<"o","a","k","_","l","o","g","s">>,
    <<"c","o","b","b","l","e","s","t","o","n","e">>,
    <<"e","n","d","e","r","_","p","e","a","r","l">>,
    <<"w","o","o","d">>
  }

\* Stack sizes for a call of trade_count_and_label.
CALL_STACK_SIZES == {0, 1, 2, 16, 63, 64, 65, 99}

\* Values of start_id for a call of build_enchanted_book_items: its default,
\* the id of the first custom item and 0.
CALL_START_IDS == {BookStartId, CUSTOM_ITEMS[1].id, 0}

CALLS ==
  [fn : {"trade_count_and_label"}, name : CALL_NAMES, stack_size : CALL_STACK_SIZES]
    \cup [fn : {"build_enchanted_book_items"}, start_id : CALL_START_IDS]

\* A function is about to be called with arguments of CALLS; no run of main
\* is under way.
InitCalls ==
  /\ call \in CALLS
  /\ result = None
  /\ pc = "call"
  /\ catalog = <<>>
  /\ ru_lang = <<>>
  /\ out_items = <<>>
  /\ built = <<>>
  /\ prev = <<>>
  /\ written = FALSE
  /\ artifact = None

\* The call returns.
Return(value) ==
  /\ pc = "call"
  /\ result' = value
  /\ pc' = "returned"
  /\ UNCHANGED <<catalog, ru_lang, out_items, built, prev, written, artifact, call>>

CallTradeCountAndLabel ==
  /\ call.fn = "trade_count_and_label"
  /\ Return(trade_count_and_label(call.name, call.stack_size))

CallBuildEnchantedBookItems ==
  /\ call.fn = "build_enchanted_book_items"
  /\ Return(build_enchanted_book_items(call.start_id))

NextCalls ==
  \/ CallTradeCountAndLabel
  \/ CallBuildEnchantedBookItems

SpecCalls == InitCalls /\ [][NextCalls]_vars


---------------------------------------------------------------------------
(* Properties *)

HasPrice(row) == row.price_ars # None

Price(row) == row.price_ars[1]

\* q = max(1, round-half-up(N / D)) for N >= 0 and D > 0, in integers.
RoundsHalfUpTo(q, N, D) ==
  IF 2 * N < 3 * D THEN q = 1
  ELSE 2 * q * D - D <= 2 * N /\ 2 * N < 2 * q * D + D

AfterYieldFloor ==
  {"tier_floor", "antidumping", "undefined", "merge", "sort", "write", "done"}

AfterStabilization == {"undefined", "merge", "sort", "write", "done"}

AfterUndefined == {"merge", "sort", "write", "done"}

\* C1: running the full stabilization (the compression, yield-floor and
\* tier-floor passes of stabilize_economy, then enforce_antidumping) on the
\* working set that a first run has produced changes no field of any row:
\* the set goes through the four passes of the second run unchanged.
C1_Idempotence ==
  pc = "undefined" =>
    LET s1 == compression_pass(out_items)
        s2 == yield_floor_pass(s1)
        s3 == tier_floor_pass(s2)
        s4 == enforce_antidumping(s3)
    IN  s1 = out_items /\ s2 = out_items /\ s3 = out_items /\ s4 = out_items

\* A stabilized working set in which the compression pass has overwritten a
\* block and a floor pass has raised an ore.
C1_Witness ==
  /\ pc = "undefined"
  /\ \E k \in DOMAIN COMPRESSION_RELATIONS :
       LET b == by_key(out_items, COMPRESSION_RELATIONS[k][2])
       IN  /\ b # 0
           /\ by_key(out_items, COMPRESSION_RELATIONS[k][1]) # 0
           /\ out_items[b] # built[b]
  /\ \E k \in DOMAIN ORE_FORTUNE_RELATIONS :
       LET o == by_key(out_items, ORE_FORTUNE_RELATIONS[k][1])
       IN  o # 0 /\ Price(out_items[o]) > Price(built[o])

\* C2: after the four passes, the price of the compressed row of every
\* compression relation with both endpoints present is max(1, round-half-up
\* (resource price / resource trade_count * ratio * compressed trade_count)),
\* taken from the final price and trade_count of the resource.
C2_CompressionExact ==
  pc = "undefined" =>
    \A k \in DOMAIN COMPRESSION_RELATIONS :
      LET rel == COMPRESSION_RELATIONS[k]
          r == by_key(out_items, rel[1])
          b == by_key(out_items, rel[2])
      IN  (r # 0 /\ b # 0) =>
            RoundsHalfUpTo(Price(out_items[b]),
                           Price(out_items[r]) * rel[3][1] * out_items[b].trade_count,
                           out_items[r].trade_count * rel[3][2])

\* A stabilized pair whose exact target is not an integer, so that the
\* rounding decided the price, and whose block price was overwritten.
C2_Witness ==
  /\ pc = "undefined"
  /\ \E k \in DOMAIN COMPRESSION_RELATIONS :
       LET rel == COMPRESSION_RELATIONS[k]
           r == by_key(out_items, rel[1])
           b == by_key(out_items, rel[2])
       IN  /\ r # 0 /\ b # 0
           /\ (Price(out_items[r]) * rel[3][1] * out_items[b].trade_count)
                % (out_items[r].trade_count * rel[3][2]) # 0
           /\ Price(out_items[b]) > 1
           /\ Price(out_items[b]) # Price(built[b])

\* C3: from the end of the yield-floor pass on, through the tier-floor and
\* dump-floor passes to the output, every ore of ORE_FORTUNE_RELATIONS present
\* with its drop has a unit price of at least the drop's unit price times the
\* multiplier.
C3_YieldFloor ==
  pc \in AfterYieldFloor =>
    \A k \in DOMAIN ORE_FORTUNE_RELATIONS :
      LET rel == ORE_FORTUNE_RELATIONS[k]
          o == by_key(out_items, rel[1])
          d == by_key(out_items, rel[2])
      IN  (o # 0 /\ d # 0) =>
            Price(out_items[o]) * out_items[d].trade_count * rel[3][2]
              >= Price(out_items[d]) * rel[3][1] * out_items[o].trade_count

\* A stabilized ore that the yield floor has raised to a price strictly
\* above the exact floor (the ceiling rounded up).
C3_Witness ==
  /\ pc = "undefined"
  /\ \E k \in DOMAIN ORE_FORTUNE_RELATIONS :
       LET rel == ORE_FORTUNE_RELATIONS[k]
           o == by_key(out_items, rel[1])
           d == by_key(out_items, rel[2])
       IN  /\ o # 0 /\ d # 0
           /\ Price(out_items[o]) > Price(built[o])
           /\ Price(out_items[o]) * out_items[d].trade_count * rel[3][2]
                > Price(out_items[d]) * rel[3][1] * out_items[o].trade_count

IsYieldSource(key) == \E k \in DOMAIN ORE_FORTUNE_RELATIONS : ORE_FORTUNE_RELATIONS[k][1] = key

IsTierEnhanced(key) == \E k \in DOMAIN DEEPSLATE_PRICE_LINKS : DEEPSLATE_PRICE_LINKS[k][2] = key

\* C4: after each floor pass (yield floor, tier floor, dump floor) no row has
\* a lower price than before that pass, and every yield-floor source and
\* every deepslate side of a tier link has at least its price from before
\* the stabilization.
C4_FloorsOnlyRaise ==
  pc \in {"tier_floor", "antidumping", "undefined"} =>
    /\ Len(out_items) = Len(built) /\ Len(out_items) = Len(prev)
    /\ \A i \in DOMAIN out_items :
         /\ out_items[i].key = built[i].key
         /\ Price(out_items[i]) >= Price(prev[i])
         /\ (IsYieldSource(out_items[i].key) \/ IsTierEnhanced(out_items[i].key))
              => Price(out_items[i]) >= Price(built[i])

\* The state after the tier-floor pass in which that pass has raised a
\* deepslate row and the yield-floor pass before it had raised an ore.
C4_Witness ==
  /\ pc = "antidumping"
  /\ \E i \in DOMAIN out_items :
       IsTierEnhanced(out_items[i].key) /\ Price(out_items[i]) > Price(prev[i])
  /\ \E j \in DOMAIN out_items :
       IsYieldSource(prev[j].key) /\ Price(prev[j]) > Price(built[j])

\* C5: after the stabilization, and in the output, the deepslate row of every
\* link of DEEPSLATE_PRICE_LINKS with both endpoints present has a price of at
\* least the final price of the base row.
C5_TierFloor ==
  pc \in AfterStabilization =>
    \A k \in DOMAIN DEEPSLATE_PRICE_LINKS :
      LET n == by_key(out_items, DEEPSLATE_PRICE_LINKS[k][1])
          d == by_key(out_items, DEEPSLATE_PRICE_LINKS[k][2])
      IN  (n # 0 /\ d # 0) => Price(out_items[d]) >= Price(out_items[n])

\* A link whose base row was raised by the yield floor and whose deepslate
\* row, trading by a smaller count, was lifted to the base row's final price.
C5_Witness ==
  /\ pc = "undefined"
  /\ \E k \in DOMAIN DEEPSLATE_PRICE_LINKS :
       LET n == by_key(out_items, DEEPSLATE_PRICE_LINKS[k][1])
           d == by_key(out_items, DEEPSLATE_PRICE_LINKS[k][2])
       IN  /\ n # 0 /\ d # 0
           /\ Price(out_items[n]) > Price(built[n])
           /\ out_items[d].trade_count < out_items[n].trade_count
           /\ Price(out_items[d]) = Price(out_items[n])
           /\ Price(out_items[d]) > Price(built[d])

\* C6: enforce_antidumping leaves every present, priced key of
\* ANTI_DUMP_MINIMUMS with the larger of its price before and the configured
\* minimum; no later step (the marking, the merge, the sort) changes the price
\* of that key's row, and writing the artifact leaves the list as it is.
C6_DumpFloor ==
  [][\A k \in DOMAIN ANTI_DUMP_MINIMUMS :
       LET e == ANTI_DUMP_MINIMUMS[k]
           i == by_key(out_items, e[1])
           j == by_key(out_items', e[1])
       IN  (i # 0 /\ HasPrice(out_items[i])) =>
             /\ pc = "antidumping" =>
                  /\ j # 0 /\ HasPrice(out_items'[j])
                  /\ Price(out_items'[j]) >= Price(out_items[i])
                  /\ Price(out_items'[j]) >= e[3]
                  /\ Price(out_items'[j]) \in {Price(out_items[i]), e[3]}
             /\ pc \in {"undefined", "merge", "sort"} =>
                  /\ j # 0
                  /\ out_items'[j].price_ars = out_items[i].price_ars
                  /\ Price(out_items[i]) >= e[3]
             /\ pc = "write" => (written' /\ out_items' = out_items)]_vars

\* A written list holding a dump-floor key priced above its minimum and one
\* priced exactly at its minimum.
C6_Witness ==
  /\ pc = "done"
  /\ \E k \in DOMAIN ANTI_DUMP_MINIMUMS :
       LET i == by_key(out_items, ANTI_DUMP_MINIMUMS[k][1])
       IN  i # 0 /\ Price(out_items[i]) > ANTI_DUMP_MINIMUMS[k][3]
  /\ \E k \in DOMAIN ANTI_DUMP_MINIMUMS :
       LET i == by_key(out_items, ANTI_DUMP_MINIMUMS[k][1])
       IN  i # 0 /\ Price(out_items[i]) = ANTI_DUMP_MINIMUMS[k][3]

PositiveRows(rows) ==
  \A i \in DOMAIN rows :
    /\ rows[i].trade_count \in Nat /\ rows[i].trade_count >= 1
    /\ HasPrice(rows[i]) => (Price(rows[i]) \in Nat /\ Price(rows[i]) >= 1)

\* C7: in every state of the run, from the build loop through every pass to
\* the written list, every row of the working set has trade_count >= 1 and,
\* when its price is defined, an integer price >= 1.
C7_Positivity ==
  /\ PositiveRows(out_items)
  /\ PositiveRows(built)

\* A written list with a compressed row whose exact target rounds to 0 and is
\* priced 1, a row with an undefined price and an enchanted-book row.
C7_Witness ==
  /\ pc = "done"
  /\ \E k \in DOMAIN COMPRESSION_RELATIONS :
       LET rel == COMPRESSION_RELATIONS[k]
           r == by_key(out_items, rel[1])
           b == by_key(out_items, rel[2])
       IN  /\ r # 0 /\ b # 0
           /\ 2 * Price(out_items[r]) * rel[3][1] * out_items[b].trade_count
                < out_items[r].trade_count * rel[3][2]
           /\ Price(out_items[b]) = 1
  /\ \E i \in DOMAIN out_items : ~HasPrice(out_items[i])
  /\ \E i \in DOMAIN out_items : out_items[i].id >= BookStartId

HasOverride(row, o) ==
  row.trade_count = INTEGER_OVERRIDES[o][2] /\ row.price_ars = Some(INTEGER_OVERRIDES[o][3])

\* C8 as stated: in the written list every key of INTEGER_OVERRIDES has
\* exactly its overriding trade_count and price.
C8_OverridesAlways ==
  pc = "done" =>
    \A i \in DOMAIN out_items :
      LET o == Find(INTEGER_OVERRIDES, out_items[i].key)
      IN  o # 0 => HasOverride(out_items[i], o)

\* C8 amended: every eligible catalog entity whose key is in INTEGER_OVERRIDES
\* has a row; from its construction on, through every pass, that row has
\* exactly the overriding trade_count and price, except that a key that is
\* also in UNDEFINED_PRICE_KEYS has trade_count 1 and the undefined price from
\* the undefined-price marking on.
C8_OverridesUnlessUndefined ==
  /\ pc \notin {"build", "failed"} =>
       \A c \in DOMAIN catalog :
         (Find(INTEGER_OVERRIDES, catalog[c].name) # 0
            /\ is_survival_obtainable(catalog[c].name))
           => by_key(out_items, catalog[c].name) # 0
  /\ \A i \in DOMAIN out_items :
       LET o == Find(INTEGER_OVERRIDES, out_items[i].key)
       IN  o # 0 =>
             IF out_items[i].key \in UNDEFINED_PRICE_KEYS /\ pc \in AfterUndefined
             THEN out_items[i].trade_count = 1 /\ out_items[i].price_ars = None
             ELSE HasOverride(out_items[i], o)

\* A written list with an overridden key that is marked undefined, and an
\* overridden key that trades by the stack of 64.
C8_Witness ==
  /\ pc = "done"
  /\ \E i \in DOMAIN out_items :
       /\ Find(INTEGER_OVERRIDES, out_items[i].key) # 0
       /\ out_items[i].key \in UNDEFINED_PRICE_KEYS
       /\ ~HasPrice(out_items[i])
  /\ \E i \in DOMAIN out_items :
       LET o == Find(INTEGER_OVERRIDES, out_items[i].key)
       IN  o # 0 /\ INTEGER_OVERRIDES[o][2] = 64 /\ HasOverride(out_items[i], o)

\* C9 as stated: after the stabilization the unit price of the compressed row
\* of every compression relation with both endpoints present equals the ratio
\* times the unit price of the resource.
C9_ExactTracking ==
  pc = "undefined" =>
    \A k \in DOMAIN COMPRESSION_RELATIONS :
      LET rel == COMPRESSION_RELATIONS[k]
          r == by_key(out_items, rel[1])
          b == by_key(out_items, rel[2])
      IN  (r # 0 /\ b # 0) =>
            Price(out_items[b]) * out_items[r].trade_count * rel[3][2]
              = rel[3][1] * Price(out_items[r]) * out_items[b].trade_count

Excluded(key) ==
  \/ \E x \in EXCLUDE_EXACT : key = x
  \/ \E p \in EXCLUDE_PREFIX :
       Len(key) >= Len(p) /\ \A j \in 1..Len(p) : key[j] = p[j]
  \/ \E s \in EXCLUDE_SUFFIX :
       Len(key) >= Len(s) /\ \A j \in 1..Len(s) : key[Len(key) - Len(s) + j] = s[j]

\* C10: no row of the working set, before or after the synthetic merge, and
\* no row of the written list has an excluded key, and every catalog entity
\* whose name is not excluded has a row in them.
C10_Eligibility ==
  /\ \A i \in DOMAIN out_items : ~Excluded(out_items[i].key)
  /\ pc \notin {"build", "failed"} =>
       \A c \in DOMAIN catalog :
         ~Excluded(catalog[c].name) => by_key(out_items, catalog[c].name) # 0

\* A written list for a catalog that held an entity excluded by prefix, one
\* excluded by suffix and an eligible one.
C10_Witness ==
  /\ pc = "done"
  /\ \E c \in DOMAIN catalog : \E p \in EXCLUDE_PREFIX : startswith(catalog[c].name, p)
  /\ \E c \in DOMAIN catalog : \E s \in EXCLUDE_SUFFIX : endswith(catalog[c].name, s)
  /\ \E c \in DOMAIN catalog : by_key(out_items, catalog[c].name) # 0

---------------------------------------------------------------------------
(* C11: determinism *)

\* Two neighbours of the list with one sort key.
HasTie(rows) ==
  \E i \in 1..(Len(rows) - 1) :
    /\ rows[i].category = rows[i + 1].category
    /\ rows[i].name_ru = rows[i + 1].name_ru
    /\ rows[i].key # rows[i + 1].key

\* C11 (determinism): when a run over the same catalog and localization map
\* as an earlier run has sorted its list, and after it has written it, the
\* list is the items list the earlier run left in the artifact, row by row
\* and in the same order, and items_count is the same; generated_at is the
\* one field that may differ.  The runs may meet the keys of
\* UNDEFINED_PRICE_KEYS in different orders.
C11_Determinism ==
  (pc \in {"write", "done"} /\ artifact # None) =>
    /\ artifact[1].items = out_items
    /\ artifact[1].items_count = Len(out_items)

\* A later run about to write a list in which two rows share one sort key
\* and which holds a marked key, over the artifact of an earlier run.
C11_Witness ==
  /\ pc = "write"
  /\ artifact # None
  /\ HasTie(out_items)
  /\ \E i \in DOMAIN out_items : out_items[i].key \in UNDEFINED_PRICE_KEYS

---------------------------------------------------------------------------
(* C12: the order of the relations inside a pass *)

\* The four passes that loop over a table, named by the pc at which they run.
PASSES == {"compression", "yield_floor", "tier_floor", "antidumping"}

pass_table(kind) ==
  CASE kind = "compression" -> COMPRESSION_RELATIONS
    [] kind = "yield_floor" -> ORE_FORTUNE_RELATIONS
    [] kind = "tier_floor" -> DEEPSLATE_PRICE_LINKS
    [] kind = "antidumping" -> ANTI_DUMP_MINIMUMS

\* The keys the k-th entry of the table of a pass names.
pass_keys(kind, k) ==
  IF kind = "antidumping" THEN {pass_table(kind)[k][1]}
  ELSE {pass_table(kind)[k][1], pass_table(kind)[k][2]}

\* The iteration of a pass for the k-th entry of its table.
pass_step(kind, rows, k) ==
  CASE kind = "compression" -> compression_step(rows, COMPRESSION_RELATIONS[k])
    [] kind = "yield_floor" -> yield_step(rows, ORE_FORTUNE_RELATIONS[k])
    [] kind = "tier_floor" -> tier_step(rows, DEEPSLATE_PRICE_LINKS[k])
    [] kind = "antidumping" -> antidumping_step(rows, ANTI_DUMP_MINIMUMS[k])

\* The rows after a pass has met the first i entries of order, a list of
\* places of its table.
RECURSIVE pass_in(_, _, _, _)
pass_in(kind, rows, order, i) ==
  IF i = 0 THEN rows
  ELSE pass_step(kind, pass_in(kind, rows, order, i - 1), order[i])

\* The entries of the table of a pass that name a key of the rows.
touched(kind, rows) ==
  {k \in DOMAIN pass_table(kind) :
     \E i \in DOMAIN rows : rows[i].key \in pass_keys(kind, k)}

\* The orders of the table of a pass in which the entries that name a key
\* of the rows are permuted in every way and the others keep their places.
pass_orders(kind, A) ==
  {[k \in DOMAIN pass_table(kind) |-> IF k \in A THEN p[k] ELSE k] :
     p \in {q \in [A -> A] : \A a \in A : \E b \in A : q[b] = a}}

---------------------------------------------------------------------------
(* C13: the order of the final list *)

\* The length of the longest common prefix of a and b, known to lie in
\* lo..hi.
RECURSIVE common_prefix(_, _, _, _)
common_prefix(a, b, lo, hi) ==
  IF lo = hi THEN lo
  ELSE LET mid == (lo + hi + 1) \div 2
       IN  IF SubSeq(a, 1, mid) = SubSeq(b, 1, mid) THEN common_prefix(a, b, mid, hi)
           ELSE common_prefix(a, b, lo, mid - 1)

\* a <= b for two texts that agree on their first k code points and on no
\* more: Python compares str values code point by code point, a proper
\* prefix first.
text_leq_at(a, b, k) ==
  IF k = Len(a) THEN TRUE
  ELSE IF k = Len(b) THEN FALSE
  ELSE a[k + 1] < b[k + 1]

text_leq(a, b) ==
  text_leq_at(a, b, common_prefix(a, b, 0, IF Len(a) < Len(b) THEN Len(a) ELSE Len(b)))

\* (category, name_ru) of r is less than or equal to that of s, as tuples.
sort_key_leq(r, s) ==
  IF r.category = s.category THEN text_leq(r.name_ru, s.name_ru)
  ELSE text_leq(r.category, s.category)

Synthetic(row) == row \in {CUSTOM_ITEMS[i] : i \in DOMAIN CUSTOM_ITEMS}
                    \/ row.category = CategoryBooks

\* C13 (sorted output): in the list the sort has left, which is the list
\* that is written, every row has a (category, name_ru) pair less than or
\* equal to that of the row after it, the custom and enchanted-book rows
\* included.
C13_Sorted ==
  pc \in {"write", "done"} =>
    \A i \in 1..(Len(out_items) - 1) : sort_key_leq(out_items[i], out_items[i + 1])

\* A sorted list that the sort had to reorder, in which two rows share one
\* sort key, a catalog row stands before the synthetic rows and another
\* after them.
C13_Witness ==
  /\ pc = "write"
  /\ out_items # prev
  /\ HasTie(out_items)
  /\ \E i, j, k \in DOMAIN out_items :
       /\ i < j /\ j < k
       /\ ~Synthetic(out_items[i]) /\ Synthetic(out_items[j]) /\ ~Synthetic(out_items[k])

---------------------------------------------------------------------------
(* C14: the merge of the synthetic rows *)

KeysOf(rows) == {rows[i].key : i \in DOMAIN rows}

SyntheticKeys == KeysOf(CUSTOM_ITEMS) \cup KeysOf(BOOK_ITEMS)

\* C14 (merge never overwrites): the merge step leaves every row of the
\* working set as it was and where it was, appends no row whose key the
\* working set or an earlier appended row has, and leaves every custom and
\* enchanted-book key in the list; and, the names of the catalog being
\* unique, every key occurs once in the list the merge leaves, the sort
\* leaves and the run writes.
C14_MergeKeeps ==
  [][/\ pc = "merge" =>
          /\ Len(out_items') >= Len(out_items)
          /\ SubSeq(out_items', 1, Len(out_items)) = out_items
          /\ \A j \in (Len(out_items) + 1)..Len(out_items') :
               /\ Synthetic(out_items'[j])
               /\ \A i \in 1..(j - 1) : out_items'[i].key # out_items'[j].key
          /\ SyntheticKeys \subseteq KeysOf(out_items')
     /\ pc \in {"merge", "sort", "write"} =>
          Cardinality(KeysOf(out_items')) = Len(out_items')]_vars

\* The merge has run over a working set that held a catalog row with the
\* key of a custom item and one with the key of an enchanted-book row: both
\* are still there, and the two synthetic rows are not.
C14_Witness ==
  /\ pc = "sort"
  /\ \E i, j \in DOMAIN prev :
       /\ prev[i].key \in KeysOf(CUSTOM_ITEMS)
       /\ prev[j].key \in KeysOf(BOOK_ITEMS)
       /\ out_items[i] = prev[i] /\ out_items[j] = prev[j]
  /\ Len(out_items) = Len(prev) + Len(CUSTOM_ITEMS) + Len(BOOK_ITEMS) - 2

---------------------------------------------------------------------------
(* C15: relations with a missing endpoint *)

\* The k-th entry of the table of a pass names a key no row has.
Missing(kind, rows, k) == ~(pass_keys(kind, k) \subseteq KeysOf(rows))

\* The places of the table of a pass whose keys the rows all have, in the
\* order of the table.
present(kind, rows) ==
  SelectSeq([k \in DOMAIN pass_table(kind) |-> k], LAMBDA k : ~Missing(kind, rows, k))

\* C15 (missing endpoints are skipped silently): in each of the four
\* table-driven passes an entry that names a key absent from the working set
\* changes no row, before the pass and after it; the pass leaves what its
\* other entries, applied in their order, leave; and the run goes on to its
\* next step.  Likewise the marking changes no row for an absent key and
\* marks the keys that are there.
C15_MissingSkipped ==
  [][/\ \A kind \in PASSES :
          pc = kind =>
            /\ \A k \in DOMAIN pass_table(kind) :
                 Missing(kind, out_items, k) =>
                   /\ pass_step(kind, out_items, k) = out_items
                   /\ pass_step(kind, out_items', k) = out_items'
            /\ out_items' = pass_in(kind, out_items, present(kind, out_items),
                                    Len(present(kind, out_items)))
            /\ pc' \in (PASSES \cup {"undefined"}) \ {kind}
     /\ pc = "undefined" =>
          /\ \A key \in UNDEFINED_PRICE_KEYS \ KeysOf(out_items) :
               undefined_step(out_items, key) = out_items
          /\ \A order \in UNDEFINED_PRICE_ORDERS :
               out_items' = apply_undefined_prices(
                              out_items,
                              SelectSeq(order, LAMBDA key : key \in KeysOf(out_items)))
          /\ pc' = "merge"]_vars

\* The compression pass has run over a working set that held the block of
\* one relation without its resource and both rows of another: it rewrote a
\* price and left the lone block as it was.
C15_Witness ==
  /\ pc = "yield_floor"
  /\ out_items # prev
  /\ \E k \in DOMAIN COMPRESSION_RELATIONS :
       /\ by_key(prev, COMPRESSION_RELATIONS[k][1]) = 0
       /\ by_key(prev, COMPRESSION_RELATIONS[k][2]) # 0
       /\ out_items[by_key(prev, COMPRESSION_RELATIONS[k][2])]
            = prev[by_key(prev, COMPRESSION_RELATIONS[k][2])]

---------------------------------------------------------------------------
(* C16: no partial output *)

\* rows is the whole list of a run over the catalog: a row for every
\* eligible record and every synthetic key and no other, each key once, the
\* rows in sorted order.
Complete(rows) ==
  /\ \A c \in DOMAIN catalog : has_name(catalog[c])
  /\ KeysOf(rows) = {catalog[c].name : c \in {d \in DOMAIN catalog : ~Excluded(catalog[d].name)}}
                      \cup SyntheticKeys
  /\ Cardinality(KeysOf(rows)) = Len(rows)
  /\ \A i \in 1..(Len(rows) - 1) : sort_key_leq(rows[i], rows[i + 1])

\* C16 (no partial output): a run that fails, because a fetch raises or a
\* record of the catalog cannot be processed, ends without having written
\* and leaves the artifact as it was; and the artifact changes in the write
\* step only, which comes after the build, the passes, the merge and the
\* sort: what is written is the working set of that moment, which is
\* complete, sorted and satisfies the yield and tier floors.
C16_NoPartialOutput ==
  [][/\ pc' = "failed" => (artifact' = artifact /\ ~written')
     /\ (artifact' # artifact \/ written' # written) =>
          /\ pc = "write" /\ pc' = "done"
          /\ written'
          /\ artifact' # None
          /\ artifact'[1].items = out_items
          /\ artifact'[1].items_count = Len(out_items)
          /\ Complete(out_items)
          /\ C3_YieldFloor /\ C5_TierFloor]_vars

\* A run that failed at a record without a name after it had built rows for
\* the records before it: nothing is written.
C16_Witness ==
  /\ pc = "failed"
  /\ out_items # <<>>
  /\ ~written
  /\ artifact = None

---------------------------------------------------------------------------
(* C17: the trade unit *)

HasSuffix(key, s) ==
  Len(key) >= Len(s) /\ \A j \in 1..Len(s) : key[Len(key) - Len(s) + j] = s[j]

HasToken(key, t) ==
  \E at \in 0..(Len(key) - Len(t)) : \A j \in 1..Len(t) : key[at + j] = t[j]

BulkWood(key) ==
  \/ \E s \in {<<"_","l","o","g">>, <<"_","s","t","e","m">>, <<"_","w","o","o","d">>,
               <<"_","h","y","p","h","a","e">>, <<"_","p","l","a","n","k","s">>} :
       HasSuffix(key, s)
  \/ key = <<"b","a","m","b","o","o","_","b","l","o","c","k">>

PerItem(key) == \E t \in PER_ITEM_TOKENS : HasToken(key, t)

\* The trade count the rules of the claim give, in their order.
UnitOf(key, stack_size) ==
  IF stack_size <= 1 THEN 1
  ELSE IF BulkWood(key) THEN 64
  ELSE IF PerItem(key) THEN 1
  ELSE IF stack_size >= 64 THEN 64
  ELSE stack_size

\* The decimal digits of n, 0 <= n <= 99, as code points.
Digits(n) == IF n < 10 THEN <<48 + n>> ELSE <<48 + (n \div 10), 48 + (n % 10)>>

\* The label of a trade count: "sht", "stak" or "<n> sht" in Cyrillic.
UnitLabel(n) ==
  IF n = 1 THEN <<1096, 1090>>
  ELSE IF n = 64 THEN <<1089, 1090, 1072, 1082>>
  ELSE Digits(n) \o <<32, 1096, 1090>>

\* C17 (trade-unit resolution): trade_count_and_label returns trade count 1
\* for a stack size of 1 or less; else 64 for a bulk wood form or
\* bamboo_block; else 1 for a key that holds a per-item token; else 64 for a
\* stack size of 64 or more; else the stack size; and the label that goes
\* with the count.
C17_TradeUnit ==
  (pc = "returned" /\ call.fn = "trade_count_and_label") =>
    /\ result[1] = UnitOf(call.name, call.stack_size)
    /\ result[2] = UnitLabel(result[1])

\* A call in which three rules match, for a wood form that holds a per-item
\* token and stacks to 16: the wood rule wins.  The calls of the model also
\* cover each rule alone.
C17_Witness ==
  /\ pc = "returned"
  /\ call.fn = "trade_count_and_label"
  /\ BulkWood(call.name) /\ PerItem(call.name)
  /\ call.stack_size = 16
  /\ result = <<64, <<1089, 1090, 1072, 1082>>>>

---------------------------------------------------------------------------
(* C18: the undefined price *)

\* C18 (policy-driven undefined price): from the marking on, in the list
\* that is merged, sorted and written, every row whose key is in
\* UNDEFINED_PRICE_KEYS has the undefined price, trade_count 1 and a
\* price_note, whatever it was built with; and every row has an integer
\* price or the undefined price with a price_note.
C18_UndefinedPrice ==
  pc \in AfterUndefined =>
    \A i \in DOMAIN out_items :
      /\ out_items[i].key \in UNDEFINED_PRICE_KEYS =>
           /\ out_items[i].price_ars = None
           /\ out_items[i].trade_count = 1
           /\ out_items[i].price_note # None
      /\ \/ HasPrice(out_items[i]) /\ Price(out_items[i]) \in Int
         \/ out_items[i].price_ars = None /\ out_items[i].price_note # None

\* A written list with a marked row that was built with the price of an
\* override, next to a marked row built by inference, custom rows without a
\* price and enchanted-book rows with one.
C18_Witness ==
  /\ pc = "done"
  /\ written
  /\ \E i, j \in DOMAIN out_items :
       /\ out_items[i].key \in UNDEFINED_PRICE_KEYS
       /\ Find(INTEGER_OVERRIDES, out_items[i].key) # 0
       /\ out_items[i].price_ars = None
       /\ \E b \in DOMAIN built :
            /\ built[b].key = out_items[i].key
            /\ HasPrice(built[b])
       /\ out_items[j].key \in UNDEFINED_PRICE_KEYS
       /\ Find(INTEGER_OVERRIDES, out_items[j].key) = 0
       /\ out_items[j].price_note # None
  /\ \E k \in DOMAIN out_items : Synthetic(out_items[k]) /\ HasPrice(out_items[k])
  /\ \E k \in DOMAIN out_items : Synthetic(out_items[k]) /\ ~HasPrice(out_items[k])

---------------------------------------------------------------------------
(* C19: the enchanted-book rows *)

\* The (enchantment, level) pairs in declaration order, then by level.
RECURSIVE LevelPairsFrom(_)
LevelPairsFrom(i) ==
  IF i > Len(ENCHANTED_BOOK_VARIANTS) THEN <<>>
  ELSE [level \in 1..ENCHANTED_BOOK_VARIANTS[i].max_level |-> <<i, level>>]
         \o LevelPairsFrom(i + 1)

LevelPairs == LevelPairsFrom(1)

\* The decimal digits of a level as characters.
LevelChar(level) == <<<<"1">>, <<"2">>, <<"3">>, <<"4">>, <<"5">>>>[level]

\* C19 (enchantment expansion): build_enchanted_book_items(start_id) returns
\* one row for each (enchantment, level) pair with 1 <= level <= max_level,
\* in declaration order and by ascending level; the k-th row has the id
\* start_id + k - 1 and the key enchanted_book_<key>_<level> of its pair;
\* the keys are pairwise distinct; and with the default start_id no id is
\* the id of a custom item.
C19_Expansion ==
  (pc = "returned" /\ call.fn = "build_enchanted_book_items") =>
    /\ Len(result) = Len(LevelPairs)
    /\ \A k \in DOMAIN result :
         /\ result[k].id = call.start_id + k - 1
         /\ result[k].key =
              <<"e","n","c","h","a","n","t","e","d","_","b","o","o","k","_">>
                \o ENCHANTED_BOOK_VARIANTS[LevelPairs[k][1]].key
                \o <<"_">> \o LevelChar(LevelPairs[k][2])
    /\ Cardinality({result[k].key : k \in DOMAIN result}) = Len(result)
    /\ Cardinality({result[k].id : k \in DOMAIN result}) = Len(result)
    /\ call.start_id = BookStartId =>
         /\ result = BOOK_ITEMS
         /\ {result[k].id : k \in DOMAIN result}
              \cap {CUSTOM_ITEMS[c].id : c \in DOMAIN CUSTOM_ITEMS} = {}
         /\ {CUSTOM_ITEMS[c].id : c \in DOMAIN CUSTOM_ITEMS} = 200001..200003

\* The call with the default start_id has returned its rows, among them the
\* rows of an enchantment of five levels and of one of a single level.
C19_Witness ==
  /\ pc = "returned"
  /\ call.fn = "build_enchanted_book_items"
  /\ call.start_id = BookStartId
  /\ Len(result) > Len(ENCHANTED_BOOK_VARIANTS)
  /\ \E k \in DOMAIN result : LevelPairs[k][2] = 5
  /\ \E k \in 2..Len(result) : LevelPairs[k][2] = 1 /\ LevelPairs[k - 1][2] = 1

---------------------------------------------------------------------------
(* C20: the frame of stabilize_economy *)

\* The three passes of stabilize_economy, named by the pc at which they run.
STABILIZE == {"compression", "yield_floor", "tier_floor"}

\* The keys stabilize_economy may write: the blocks of the compression
\* relations, the ores of the yield relations, the deepslate ores of the
\* tier links.
WrittenKeys ==
  {COMPRESSION_RELATIONS[k][2] : k \in DOMAIN COMPRESSION_RELATIONS}
    \cup {ORE_FORTUNE_RELATIONS[k][1] : k \in DOMAIN ORE_FORTUNE_RELATIONS}
    \cup {DEEPSLATE_PRICE_LINKS[k][2] : k \in DOMAIN DEEPSLATE_PRICE_LINKS}

\* The keys stabilize_economy reads a price from and never writes.
ReadKeys ==
  {COMPRESSION_RELATIONS[k][1] : k \in DOMAIN COMPRESSION_RELATIONS}
    \cup {ORE_FORTUNE_RELATIONS[k][2] : k \in DOMAIN ORE_FORTUNE_RELATIONS}

\* C20 (frame of the stabilization passes): each pass of stabilize_economy
\* leaves the number and the order of the rows as they were and changes no
\* field but price_ars; it changes price_ars only of a row that is the block
\* of a compression relation, the ore of a yield relation or the deepslate
\* ore of a tier link; so the price of every compression resource and every
\* yield drop and the trade_count of every row are unchanged, by each pass
\* and, against the rows the build loop left, by the whole call.
C20_Frame ==
  [][/\ pc \in STABILIZE => Len(out_items') = Len(out_items)
     /\ pc \in STABILIZE => Len(out_items') = Len(built)
     /\ pc \in STABILIZE =>
          \A i \in DOMAIN out_items :
            /\ [out_items'[i] EXCEPT !.price_ars = None]
                 = [out_items[i] EXCEPT !.price_ars = None]
            /\ [out_items'[i] EXCEPT !.price_ars = None]
                 = [built[i] EXCEPT !.price_ars = None]
            /\ out_items'[i].price_ars # out_items[i].price_ars =>
                 out_items[i].key \in WrittenKeys
            /\ out_items[i].key \in ReadKeys =>
                 out_items'[i].price_ars = built[i].price_ars
            /\ out_items'[i].trade_count = built[i].trade_count]_vars

\* stabilize_economy has returned: it changed the price of a block and of an
\* ore and left their resource and drop, which stand in the same list, as
\* the build loop made them.
C20_Witness ==
  /\ pc = "antidumping"
  /\ \E i, j, r \in DOMAIN out_items :
       /\ out_items[i].price_ars # built[i].price_ars
       /\ \E k \in DOMAIN COMPRESSION_RELATIONS :
            /\ COMPRESSION_RELATIONS[k][2] = out_items[i].key
            /\ COMPRESSION_RELATIONS[k][1] = out_items[r].key
       /\ out_items[j].price_ars # built[j].price_ars
       /\ \E k \in DOMAIN ORE_FORTUNE_RELATIONS :
            /\ ORE_FORTUNE_RELATIONS[k][1] = out_items[j].key
            /\ ORE_FORTUNE_RELATIONS[k][2] = out_items[r].key
       /\ out_items[r] = built[r]

=============================================================================
